---------------------------- MODULE Spec2Model ----------------------------
(***************************************************************************)
(* Verification model of the Endfield-Network analysis core:               *)
(*   - BinaryReader            (crates/binary-parser/src/common.rs)        *)
(*   - BinaryFile VA mapping   (crates/binary-parser/src/{pe,elf,macho}.rs)*)
(*   - Registration Locator    (crates/il2cpp/src/search.rs)               *)
(*   - Metadata decoder        (crates/il2cpp/src/metadata.rs)             *)
(*   - Dumper                  (crates/il2cpp/src/dumper.rs)               *)
(*                                                                         *)
(* Machine words (usize, u64) are scaled down to WordBits bits so that the *)
(* wrap-around cases of the code's unchecked additions are reachable.  A   *)
(* Rust addition that overflows panics when the build has overflow checks  *)
(* (debug profile) and wraps otherwise (release profile); the variable     *)
(* overflow_checks selects the build.                                      *)
(***************************************************************************)
EXTENDS Integers, Sequences, FiniteSets, TLC

VARIABLES
    overflow_checks,   \* build profile: TRUE = overflow panics, FALSE = wraps
    \* ---- BinaryReader (common.rs:181-185)
    rd_data,           \* BinaryReader.data
    rd_offset,         \* BinaryReader.offset
    rd_little_endian,  \* BinaryReader.little_endian
    rd_call,           \* the last call made on the reader and its argument
    rd_prev,           \* the cursor position before the last call
    rd_result,         \* what the last call returned
    \* ---- BinaryFile (pe.rs:17-25, elf.rs, macho.rs)
    bf_data,           \* BinaryFile.data()
    bf_sections,       \* BinaryFile.sections()
    bf_symbols,        \* BinaryFile.symbols()
    bf_architecture,   \* BinaryFile.architecture()
    bf_call,           \* the last call made on the binary and its arguments
    bf_result,         \* what the last call returned
    \* ---- Metadata decoder (metadata.rs)
    md_blob,           \* the bytes handed to Metadata::parse
    md_result,         \* what Metadata::parse returned
    \* ---- Dumper (dumper.rs:17-20)
    dm_metadata,       \* Il2CppDumper.metadata
    dm_result,         \* what Il2CppDumper::dump returned
    \* ---- MachOFile::parse_macho in progress (macho.rs:111-281)
    mo_args,           \* data, base_offset, is_64bit, little_endian
    mo_offset,         \* reader.offset()
    mo_ncmds,          \* ncmds of the Mach-O header
    mo_handled,        \* iterations of the load-command loop completed
    mo_cmd,            \* cmd_start, cmd and cmdsize of the last command handled
    mo_locals,         \* sections, entry_point, text_base and the symtab fields
    mo_pc,             \* position: "header", "commands", "finish" or "done"
    mo_result,         \* what parse_macho returned
    \* ---- PacketCapture (capture.rs:79-87)
    pc_config,         \* PacketCapture.config
    pc_running,        \* PacketCapture.running
    pc_packet_sender,  \* PacketCapture.packet_sender is Some
    pc_capture_thread, \* PacketCapture.capture_thread is Some
    pc_loop,           \* position of the capture thread in capture_loop
    pc_caller,         \* position of the caller: "idle" or inside stop's join
    pc_call,           \* the last call made on the capture
    pc_result          \* what the last call returned

rdVars == <<rd_data, rd_offset, rd_little_endian, rd_call, rd_prev, rd_result>>
bfVars == <<bf_data, bf_sections, bf_symbols, bf_architecture, bf_call, bf_result>>
mdVars == <<md_blob, md_result>>
dmVars == <<dm_metadata, dm_result>>
moVars == <<mo_args, mo_offset, mo_ncmds, mo_handled, mo_cmd, mo_locals, mo_pc, mo_result>>
pcVars == <<pc_config, pc_running, pc_packet_sender, pc_capture_thread, pc_loop, pc_caller,
            pc_call, pc_result>>
vars == <<overflow_checks, rdVars, bfVars, mdVars, dmVars, moVars, pcVars>>

-----------------------------------------------------------------------------
(* Bounds of the model. *)

\* Width in bits of the scaled usize / u64 / i64 machine word.
WordBits == 16
\* Longest buffer handed to a BinaryReader.
MaxReaderLen == 9

UsizeMod == 2 ^ WordBits
UsizeMax == UsizeMod - 1
Usize == 0 .. UsizeMax

None == [tag |-> "None"]
Some(v) == [tag |-> "Some", val |-> v]
Panic == [tag |-> "Panic"]

Min(a, b) == IF a < b THEN a ELSE b
Max(a, b) == IF a < b THEN b ELSE a

\* The values a components's variables hold while another component is checked.
rdIdle ==
    /\ rd_data = <<>> /\ rd_offset = 0 /\ rd_little_endian = TRUE
    /\ rd_call = [op |-> "new"] /\ rd_prev = 0 /\ rd_result = None
bfIdle ==
    /\ bf_data = <<>> /\ bf_sections = <<>> /\ bf_symbols = <<>>
    /\ bf_architecture = "Unknown" /\ bf_call = [op |-> "new"] /\ bf_result = None
mdIdle == md_blob = <<>> /\ md_result = None
dmIdle == dm_metadata = None /\ dm_result = None
moIdle ==
    /\ mo_args = None /\ mo_offset = 0 /\ mo_ncmds = 0 /\ mo_handled = 0 /\ mo_cmd = None
    /\ mo_locals = None /\ mo_pc = "done" /\ mo_result = None
pcIdle ==
    /\ pc_config = None /\ pc_running = FALSE /\ pc_packet_sender = FALSE
    /\ pc_capture_thread = FALSE /\ pc_loop = "none" /\ pc_caller = "idle"
    /\ pc_call = [op |-> "new"] /\ pc_result = None

-----------------------------------------------------------------------------
(* Machine arithmetic.                                                      *)

\* a + b on a machine word: the wrapped sum and whether it overflowed.
add_usize(a, b) == [val |-> (a + b) % UsizeMod, ovf |-> a + b > UsizeMax]

\* data[i] for a zero-based index i; Rust panics when i is out of range.
InRange(data, i) == 0 <= i /\ i < Len(data)
\* &data[start..end]: panics unless start <= end <= len.
SliceOk(data, start, end) == start <= end /\ end <= Len(data)
Slice(data, start, end) == SubSeq(data, start + 1, end)

-----------------------------------------------------------------------------
(* BinaryReader                                                             *)

\* ParseError::truncated(expected, actual)
truncated(expected, actual) ==
    [tag |-> "Err", err |-> "TruncatedData", expected |-> expected, actual |-> actual]
\* ParseError::parse(msg)
parse_error(msg) == [tag |-> "Err", err |-> "Parse", msg |-> msg]
Ok(v) == [tag |-> "Ok", val |-> v]

\* BinaryReader::remaining
remaining(data, offset) == IF Len(data) >= offset THEN Len(data) - offset ELSE 0

\* from_le_bytes / from_be_bytes: the value as its bytes, most significant first.
Reverse(s) == [i \in 1 .. Len(s) |-> s[Len(s) + 1 - i]]
from_bytes(bytes, little_endian) == IF little_endian THEN Reverse(bytes) ELSE bytes

\* A reader step: the result of the call and the cursor after it.
RdStep(res, off) == [res |-> res, offset |-> off]

\* BinaryReader::read_u8
read_u8(data, offset) ==
    IF offset >= Len(data)
    THEN RdStep(truncated(1, 0), offset)
    ELSE RdStep(Ok(<<data[offset + 1]>>), offset + 1)

\* The common shape of read_u16 / read_u32 / read_u64: the guard
\* `self.offset + n > self.data.len()`, then n indexed byte reads, then
\* `self.offset += n`.
read_fixed(data, offset, n, little_endian, checks) ==
    LET sum == add_usize(offset, n) IN
    IF sum.ovf /\ checks THEN RdStep(Panic, offset)
    ELSE IF sum.val > Len(data)
    THEN RdStep(truncated(n, remaining(data, offset)), offset)
    ELSE IF \E k \in 0 .. n - 1 : ~InRange(data, (offset + k) % UsizeMod)
    THEN RdStep(Panic, offset)
    ELSE RdStep(Ok(from_bytes(Slice(data, offset, offset + n), little_endian)), sum.val)

read_u16(data, offset, le, checks) == read_fixed(data, offset, 2, le, checks)
read_u32(data, offset, le, checks) == read_fixed(data, offset, 4, le, checks)
read_u64(data, offset, le, checks) == read_fixed(data, offset, 8, le, checks)
\* read_i32 / read_i64 cast the unsigned value: the same bytes.
read_i32(data, offset, le, checks) == read_u32(data, offset, le, checks)
read_i64(data, offset, le, checks) == read_u64(data, offset, le, checks)

\* BinaryReader::read_bytes
read_bytes(data, offset, count, checks) ==
    LET sum == add_usize(offset, count) IN
    IF sum.ovf /\ checks THEN RdStep(Panic, offset)
    ELSE IF sum.val > Len(data)
    THEN RdStep(truncated(count, remaining(data, offset)), offset)
    ELSE IF ~SliceOk(data, offset, sum.val) THEN RdStep(Panic, offset)
    ELSE RdStep(Ok(Slice(data, offset, sum.val)), sum.val)

\* The first index in [from, to) holding a zero byte, or `to` when there is none:
\* the loop `for i in start..end` of read_cstring.
RECURSIVE cstring_nul(_, _, _)
cstring_nul(data, from, to) ==
    IF from >= to THEN to
    ELSE IF data[from + 1] = 0 THEN from
    ELSE cstring_nul(data, from + 1, to)

\* BinaryReader::read_cstring.  The string is held as its bytes; the buffers of
\* the model hold ASCII only, which from_utf8_lossy leaves as they are.
read_cstring(data, offset, max_len, checks) ==
    LET sum == add_usize(offset, max_len) IN
    IF sum.ovf /\ checks THEN RdStep(Panic, offset)
    ELSE LET end == Min(sum.val, Len(data))
             i == cstring_nul(data, offset, end)
         IN  IF offset < end /\ i < end
             THEN RdStep(Ok(Slice(data, offset, i)), i + 1)
             ELSE RdStep(parse_error("Unterminated string"), offset)

\* BinaryReader::skip
skip(data, offset, count, checks) ==
    LET sum == add_usize(offset, count) IN
    IF sum.ovf /\ checks THEN RdStep(Panic, offset)
    ELSE IF sum.val > Len(data)
    THEN RdStep(truncated(count, remaining(data, offset)), offset)
    ELSE RdStep(Ok(<<>>), sum.val)

\* BinaryReader::peek_u32
peek_u32(data, offset, le, checks) ==
    RdStep(read_fixed(data, offset, 4, le, checks).res, offset)

\* The length a call asks for (read_bytes / skip: the count given).
requested(call) ==
    CASE call.op = "read_u8" -> 1
      [] call.op = "read_u16" -> 2
      [] call.op \in {"read_u32", "read_i32", "peek_u32"} -> 4
      [] call.op \in {"read_u64", "read_i64"} -> 8
      [] call.op \in {"read_bytes", "skip"} -> call.arg
      [] OTHER -> 0

\* Counts and positions tried: small ones, one past the longest buffer, and the
\* largest machine words (where `offset + count` wraps).
ReaderArgs == {0, 1, 2, 4, 8, MaxReaderLen + 1, UsizeMax - 3, UsizeMax - 1, UsizeMax}

ReadOps == {"read_u8", "read_u16", "read_u32", "read_u64", "read_i32", "read_i64",
            "read_bytes", "skip", "peek_u32"}

\* Buffers a reader is built on: every length up to MaxReaderLen, two fillings.
ReaderByte(kind, i) == IF kind = 1 THEN i ELSE IF i % 3 = 0 THEN 0 ELSE 64 + i
ReaderBuffers ==
    { [i \in 1 .. n |-> ReaderByte(kind, i)] : n \in 0 .. MaxReaderLen, kind \in {1, 2} }

\* A reader that panicked has unwound: no further call is made on it.
ReaderAlive == rd_result.tag # "Panic"

ReaderApply(op, arg, step) ==
    /\ ReaderAlive
    /\ rd_call' = [op |-> op, arg |-> arg]
    /\ rd_prev' = rd_offset
    /\ rd_result' = step.res
    /\ rd_offset' = step.offset
    /\ UNCHANGED <<overflow_checks, rd_data, rd_little_endian, bfVars, mdVars, dmVars, moVars,
                   pcVars>>

ReaderReadU8 == ReaderApply("read_u8", 0, read_u8(rd_data, rd_offset))
ReaderReadU16 ==
    ReaderApply("read_u16", 0, read_u16(rd_data, rd_offset, rd_little_endian, overflow_checks))
ReaderReadU32 ==
    ReaderApply("read_u32", 0, read_u32(rd_data, rd_offset, rd_little_endian, overflow_checks))
ReaderReadU64 ==
    ReaderApply("read_u64", 0, read_u64(rd_data, rd_offset, rd_little_endian, overflow_checks))
ReaderReadI32 ==
    ReaderApply("read_i32", 0, read_i32(rd_data, rd_offset, rd_little_endian, overflow_checks))
ReaderReadI64 ==
    ReaderApply("read_i64", 0, read_i64(rd_data, rd_offset, rd_little_endian, overflow_checks))
ReaderReadBytes ==
    \E count \in ReaderArgs :
        ReaderApply("read_bytes", count, read_bytes(rd_data, rd_offset, count, overflow_checks))
ReaderSkip ==
    \E count \in ReaderArgs :
        ReaderApply("skip", count, skip(rd_data, rd_offset, count, overflow_checks))
ReaderReadCstring ==
    \E max_len \in ReaderArgs :
        ReaderApply("read_cstring", max_len,
                    read_cstring(rd_data, rd_offset, max_len, overflow_checks))
ReaderPeekU32 ==
    ReaderApply("peek_u32", 0, peek_u32(rd_data, rd_offset, rd_little_endian, overflow_checks))
\* BinaryReader::set_offset: any position, also one past the end.
ReaderSetOffset ==
    \E offset \in ReaderArgs :
        ReaderApply("set_offset", offset, RdStep(Ok(<<>>), offset))

\* BinaryReader::new
InitReader ==
    /\ overflow_checks \in BOOLEAN
    /\ rd_data \in ReaderBuffers
    /\ rd_little_endian \in BOOLEAN
    /\ rd_offset = 0
    /\ rd_call = [op |-> "new"]
    /\ rd_prev = 0
    /\ rd_result = None
    /\ bfIdle /\ mdIdle /\ dmIdle /\ moIdle /\ pcIdle

NextReader ==
    \/ ReaderReadU8
    \/ ReaderReadU16
    \/ ReaderReadU32
    \/ ReaderReadU64
    \/ ReaderReadI32
    \/ ReaderReadI64
    \/ ReaderReadBytes
    \/ ReaderSkip
    \/ ReaderReadCstring
    \/ ReaderPeekU32
    \/ ReaderSetOffset

SpecReader == InitReader /\ [][NextReader]_vars

\* C8: every read that would cross the end of the buffer returns a truncation
\* error whose expected field is the requested length and whose available field
\* is the remaining byte count; it never panics and never returns data or Ok.
C8_CrossingReadIsTruncation ==
    (rd_call.op \in ReadOps /\ rd_prev + requested(rd_call) > Len(rd_data))
        => rd_result = truncated(requested(rd_call), remaining(rd_data, rd_prev))

-----------------------------------------------------------------------------
(* BinaryFile: sections and the VA <-> file offset mapping.  PeFile, ElfFile *)
(* and MachOFile implement va_to_offset, offset_to_va, read_va and          *)
(* read_string_va with the same code; section_data is the trait's default.  *)

\* Largest file of a BinaryFile in the VA checks.
MaxFileLen == 4
\* Most sections of a BinaryFile in the VA checks.
MaxVaSections == 2

\* common.rs Section
Section(name, va, vsize, raw_offset, raw_size, flags) ==
    [name |-> name, virtual_address |-> va, virtual_size |-> vsize,
     raw_offset |-> raw_offset, raw_size |-> raw_size, characteristics |-> flags]

\* ParseError::AddressOutOfBounds(va)
AddressOutOfBounds(va) == [tag |-> "Err", err |-> "AddressOutOfBounds", addr |-> va]

\* va_to_offset from section i on: the first section whose
\* [virtual_address, virtual_address + virtual_size) holds va wins.
RECURSIVE va_to_offset_from(_, _, _, _)
va_to_offset_from(sections, i, va, checks) ==
    IF i > Len(sections) THEN None
    ELSE LET section == sections[i]
             section_va_start == section.virtual_address
             section_va_end == add_usize(section_va_start, section.virtual_size)
         IN  IF section_va_end.ovf /\ checks THEN Panic
             ELSE IF va >= section_va_start /\ va < section_va_end.val
             THEN LET off == add_usize(section.raw_offset, va - section_va_start)
                  IN  IF off.ovf /\ checks THEN Panic ELSE Some(off.val)
             ELSE va_to_offset_from(sections, i + 1, va, checks)

va_to_offset(sections, va, checks) == va_to_offset_from(sections, 1, va, checks)

\* offset_to_va from section i on: the first section whose
\* [raw_offset, raw_offset + raw_size) holds the offset wins.
RECURSIVE offset_to_va_from(_, _, _, _)
offset_to_va_from(sections, i, offset, checks) ==
    IF i > Len(sections) THEN None
    ELSE LET section == sections[i]
             raw_start == section.raw_offset
             raw_end == add_usize(raw_start, section.raw_size)
         IN  IF raw_end.ovf /\ checks THEN Panic
             ELSE IF offset >= raw_start /\ offset < raw_end.val
             THEN LET va == add_usize(section.virtual_address, offset - raw_start)
                  IN  IF va.ovf /\ checks THEN Panic ELSE Some(va.val)
             ELSE offset_to_va_from(sections, i + 1, offset, checks)

offset_to_va(sections, offset, checks) == offset_to_va_from(sections, 1, offset, checks)

\* read_va
read_va(data, sections, va, size, checks) ==
    LET o == va_to_offset(sections, va, checks) IN
    IF o.tag = "Panic" THEN Panic
    ELSE IF o.tag = "None" THEN AddressOutOfBounds(va)
    ELSE LET end == add_usize(o.val, size) IN
         IF end.ovf /\ checks THEN Panic
         ELSE IF end.val > Len(data) THEN AddressOutOfBounds(va)
         ELSE IF ~SliceOk(data, o.val, end.val) THEN Panic
         ELSE Ok(Slice(data, o.val, end.val))

\* The first index in [from, to) holding a zero byte, or `to` when there is none.
RECURSIVE first_nul(_, _, _)
first_nul(data, from, to) ==
    IF from >= to THEN to
    ELSE IF data[from + 1] = 0 THEN from
    ELSE first_nul(data, from + 1, to)

\* read_string_va
read_string_va(data, sections, va, max_len, checks) ==
    LET o == va_to_offset(sections, va, checks) IN
    IF o.tag = "Panic" THEN Panic
    ELSE IF o.tag = "None" THEN AddressOutOfBounds(va)
    ELSE LET sum == add_usize(o.val, max_len) IN
         IF sum.ovf /\ checks THEN Panic
         ELSE LET end == Min(sum.val, Len(data))
                  i == first_nul(data, o.val, end)
              IN  IF i < end THEN Ok(Slice(data, o.val, i))
                  ELSE IF ~SliceOk(data, o.val, end) THEN Panic
                  ELSE Ok(Slice(data, o.val, end))

\* BinaryFile::section_data
section_data(data, section, checks) ==
    LET start == section.raw_offset
        end == add_usize(start, section.raw_size)
    IN  IF end.ovf /\ checks THEN Panic
        ELSE IF end.val <= Len(data)
        THEN IF ~SliceOk(data, start, end.val) THEN Panic
             ELSE Some(Slice(data, start, end.val))
        ELSE None

\* Files of the VA checks: empty, short and MaxFileLen long, a zero at index 2.
VaFiles == { [i \in 1 .. n |-> IF i = 3 THEN 0 ELSE 64 + i] : n \in {0, 2, MaxFileLen} }

\* Sections a parser can build: PE takes VirtualSize and SizeOfRawData from
\* separate header fields (pe.rs:130-133), ELF and Mach-O use one size for both
\* (elf.rs:192-194, macho.rs:234-236); no parser validates the ranges against
\* the file length or against each other.
VaSectionChoices ==
    { Section("s", va, vs, ro, rs, {"READ"}) :
        va \in {0, 2, UsizeMax - 1}, vs \in {2, 4},
        ro \in {0, MaxFileLen + 2, UsizeMax - 1}, rs \in {2} }
VaSectionLists ==
    UNION { [1 .. n -> VaSectionChoices] : n \in 1 .. MaxVaSections }

\* Addresses, sizes and lengths tried.
VaAddresses == {0, 1, 3, 5, UsizeMax}
VaSizes == {0, 2, UsizeMax}

\* A binary that panicked has unwound: no further call is made on it.
BinaryAlive == bf_result.tag # "Panic"

BfApply(call, result) ==
    /\ BinaryAlive
    /\ bf_call' = call
    /\ bf_result' = result
    /\ UNCHANGED <<overflow_checks, bf_data, bf_sections, bf_symbols, bf_architecture,
                   rdVars, mdVars, dmVars, moVars, pcVars>>

BfVaToOffset ==
    \E va \in VaAddresses :
        BfApply([op |-> "va_to_offset", va |-> va],
                va_to_offset(bf_sections, va, overflow_checks))

\* offset_to_va of the offset va_to_offset has just returned.
BfOffsetToVa ==
    /\ bf_call.op = "va_to_offset"
    /\ bf_result.tag = "Some"
    /\ BfApply([op |-> "offset_to_va", offset |-> bf_result.val, va |-> bf_call.va],
               offset_to_va(bf_sections, bf_result.val, overflow_checks))

BfReadVa ==
    \E va \in VaAddresses, size \in VaSizes :
        BfApply([op |-> "read_va", va |-> va, size |-> size],
                read_va(bf_data, bf_sections, va, size, overflow_checks))

BfReadStringVa ==
    \E va \in VaAddresses, max_len \in VaSizes :
        BfApply([op |-> "read_string_va", va |-> va, max_len |-> max_len],
                read_string_va(bf_data, bf_sections, va, max_len, overflow_checks))

BfSectionData ==
    \E i \in 1 .. Len(bf_sections) :
        BfApply([op |-> "section_data", section |-> i],
                section_data(bf_data, bf_sections[i], overflow_checks))

InitVa ==
    /\ overflow_checks \in BOOLEAN
    /\ bf_data \in VaFiles
    /\ bf_sections \in VaSectionLists
    /\ bf_symbols = <<>>
    /\ bf_architecture = "X64"
    /\ bf_call = [op |-> "new"]
    /\ bf_result = None
    /\ rdIdle /\ mdIdle /\ dmIdle /\ moIdle /\ pcIdle

NextVa ==
    \/ BfVaToOffset
    \/ BfOffsetToVa
    \/ BfReadVa
    \/ BfReadStringVa
    \/ BfSectionData

SpecVa == InitVa /\ [][NextVa]_vars

\* The bytes of the file a successful read may return: a slice that lies inside it.
FileSlices(data) ==
    { Slice(data, a, b) : a \in 0 .. Len(data), b \in 0 .. Len(data) }

\* C7: read_va, read_string_va and section_data return data taken from inside
\* the file or an error/absent result, and never panic, for every section table
\* (raw ranges beyond the end of the file included), address, size and max_len.
C7_ReadsFailClosed ==
    bf_call.op \in {"read_va", "read_string_va", "section_data"}
        => \/ bf_result.tag \in {"Err", "None"}
           \/ bf_result.tag \in {"Ok", "Some"} /\ bf_result.val \in FileSlices(bf_data)

\* The first section whose virtual range holds va (the one va_to_offset used).
RECURSIVE containing_section(_, _, _)
containing_section(sections, i, va) ==
    IF i > Len(sections) THEN 0
    ELSE IF va >= sections[i].virtual_address
            /\ va < sections[i].virtual_address + sections[i].virtual_size
    THEN i
    ELSE containing_section(sections, i + 1, va)

InSection(section, va) ==
    va >= section.virtual_address /\ va < section.virtual_address + section.virtual_size

\* C9: when va_to_offset(a) = o, offset_to_va(o) is present and lies inside the
\* section that contained a.
C9_RoundTripSameSection ==
    bf_call.op = "offset_to_va"
        => /\ bf_result.tag = "Some"
           /\ InSection(bf_sections[containing_section(bf_sections, 1, bf_call.va)],
                        bf_result.val)

-----------------------------------------------------------------------------
(* Registration Locator (il2cpp/src/search.rs)                              *)

\* Most symbols of a binary in the locator checks.
MaxSymbols == 3

\* Strings are sequences of characters.
g_CodeRegistration ==
    <<"g", "_", "C", "o", "d", "e", "R", "e", "g", "i", "s", "t", "r", "a", "t", "i", "o", "n">>
g_MetadataRegistration ==
    <<"g", "_", "M", "e", "t", "a", "d", "a", "t", "a",
      "R", "e", "g", "i", "s", "t", "r", "a", "t", "i", "o", "n">>

\* str::contains
contains(name, needle) ==
    \E i \in 1 .. Len(name) - Len(needle) + 1 :
        SubSeq(name, i, i + Len(needle) - 1) = needle

\* slice::starts_with applied to data[at..]
starts_with_at(data, at, pattern) ==
    /\ at + Len(pattern) <= Len(data)
    /\ SubSeq(data, at + 1, at + Len(pattern)) = pattern

\* core/src/types.rs Architecture::pointer_size
pointer_size(arch) == IF arch \in {"X86", "Arm32"} THEN 4 ELSE 8

\* Address::offset: `Self((self.0 as i64 + offset) as u64)`.
SignedMax == UsizeMod \div 2 - 1
as_i64(u) == IF u > SignedMax THEN u - UsizeMod ELSE u
address_offset(va, offset, checks) ==
    LET sum == as_i64(va) + offset IN
    IF (sum > SignedMax \/ sum < -SignedMax - 1) /\ checks THEN Panic
    ELSE Some((sum + 2 * UsizeMod) % UsizeMod)

SearchResult(code, meta) == [code_registration |-> code, metadata_registration |-> meta]

\* The address of the last symbol whose name contains the needle, as the loop of
\* symbol_search leaves it in code_reg / meta_reg.
RECURSIVE last_symbol_address(_, _, _)
last_symbol_address(symbols, n, needle) ==
    IF n = 0 THEN None
    ELSE LET before == last_symbol_address(symbols, n - 1, needle) IN
         IF contains(symbols[n].name, needle) THEN Some(symbols[n].address) ELSE before

\* symbol_search
symbol_search(symbols) ==
    LET code_reg == last_symbol_address(symbols, Len(symbols), g_CodeRegistration)
        meta_reg == last_symbol_address(symbols, Len(symbols), g_MetadataRegistration)
    IN  IF code_reg.tag = "Some" /\ meta_reg.tag = "Some"
        THEN Some(SearchResult(code_reg.val, meta_reg.val))
        ELSE None

\* BinaryFile::executable_sections / data_sections: the indices, in order.
executable_sections(sections) ==
    SelectSeq([i \in 1 .. Len(sections) |-> i],
              LAMBDA i : "EXECUTE" \in sections[i].characteristics)
data_sections(sections) ==
    SelectSeq([i \in 1 .. Len(sections) |-> i],
              LAMBDA i : "EXECUTE" \notin sections[i].characteristics
                         /\ "READ" \in sections[i].characteristics)

\* u64 / u32 ::to_le_bytes
RECURSIVE to_le_bytes(_, _)
to_le_bytes(v, n) == IF n = 0 THEN <<>> ELSE <<v % 256>> \o to_le_bytes(v \div 256, n - 1)

\* validate_metadata_registration: accepts every candidate.
validate_metadata_registration(candidate, ptr_size) == Some(candidate)

\* find_code_registration: a placeholder that finds nothing.
find_code_registration(ptr_size) == None

\* search_in_section from window `offset` on.
RECURSIVE search_windows(_, _, _, _, _, _)
search_windows(data, section, expected_bytes, ptr_size, offset, checks) ==
    IF offset + Len(expected_bytes) > Len(data) THEN None
    ELSE IF SubSeq(data, offset + 1, offset + Len(expected_bytes)) = expected_bytes
    THEN LET candidate_addr == address_offset(section.virtual_address, offset, checks) IN
         IF candidate_addr.tag = "Panic" THEN Panic
         ELSE LET meta_reg == validate_metadata_registration(candidate_addr.val, ptr_size)
                  code_reg == find_code_registration(ptr_size)
              IN  IF meta_reg.tag = "Some" /\ code_reg.tag = "Some"
                  THEN Some(SearchResult(code_reg.val, meta_reg.val))
                  ELSE search_windows(data, section, expected_bytes, ptr_size, offset + 1, checks)
    ELSE search_windows(data, section, expected_bytes, ptr_size, offset + 1, checks)

\* search_in_section
search_in_section(data, section, expected_types, ptr_size, checks) ==
    LET bytes == section_data(data, section, checks) IN
    IF bytes.tag # "Some" THEN bytes
    ELSE search_windows(bytes.val, section, to_le_bytes(expected_types, ptr_size),
                        ptr_size, 0, checks)

\* plus_search over the data sections from the k-th on.
RECURSIVE plus_search_from(_, _, _, _, _, _)
plus_search_from(data, sections, order, k, expected_types, arch_checks) ==
    IF k > Len(order) THEN None
    ELSE LET r == search_in_section(data, sections[order[k]], expected_types,
                                    pointer_size(arch_checks.arch), arch_checks.checks)
         IN  IF r.tag \in {"Some", "Panic"} THEN r
             ELSE plus_search_from(data, sections, order, k + 1, expected_types, arch_checks)

plus_search(data, sections, arch, expected_types, checks) ==
    plus_search_from(data, sections, data_sections(sections), 1, expected_types,
                     [arch |-> arch, checks |-> checks])

pattern_lea_rcx == <<72, 141, 13>>
pattern_lea_rdx == <<72, 141, 21>>

\* i32::from_le_bytes
i32_from_le_bytes(b) ==
    b[1] + 256 * b[2] + 65536 * b[3] + 16777216 * (IF b[4] >= 128 THEN b[4] - 256 ELSE b[4])

\* x64_pattern_search inside one section's data: the loops over i and j return
\* at the first (i, j), in the order the loops visit them.
x64_first_match(data) ==
    LET n == Len(data)
        is == IF n >= 20 THEN 0 .. (n - 20) - 1 ELSE {}
        js(i) == { j \in (i + 7) .. Min(i + 50, n - 7) - 1 :
                       starts_with_at(data, j, pattern_lea_rdx) }
        hits == { i \in is : starts_with_at(data, i, pattern_lea_rcx) /\ js(i) # {} }
    IN  IF hits = {} THEN None
        ELSE LET i == CHOOSE x \in hits : \A y \in hits : x <= y
                 j == CHOOSE x \in js(i) : \A y \in js(i) : x <= y
             IN  Some([i |-> i, j |-> j])

x64_in_section(data, section, checks) ==
    LET bytes == section_data(data, section, checks) IN
    IF bytes.tag # "Some" THEN bytes
    ELSE LET m == x64_first_match(bytes.val) IN
         IF m.tag = "None" THEN None
         ELSE LET i == m.val.i
                  j == m.val.j
                  code_offset == i32_from_le_bytes(SubSeq(bytes.val, i + 4, i + 7))
                  meta_offset == i32_from_le_bytes(SubSeq(bytes.val, j + 4, j + 7))
                  code_addr == address_offset(section.virtual_address,
                                              i + 7 + code_offset, checks)
                  meta_addr == address_offset(section.virtual_address,
                                              j + 7 + meta_offset, checks)
              IN  IF code_addr.tag = "Panic" \/ meta_addr.tag = "Panic" THEN Panic
                  ELSE Some(SearchResult(code_addr.val, meta_addr.val))

\* x64_pattern_search over the executable sections from the k-th on.
RECURSIVE x64_pattern_search_from(_, _, _, _, _)
x64_pattern_search_from(data, sections, order, k, checks) ==
    IF k > Len(order) THEN None
    ELSE LET r == x64_in_section(data, sections[order[k]], checks) IN
         IF r.tag \in {"Some", "Panic"} THEN r
         ELSE x64_pattern_search_from(data, sections, order, k + 1, checks)

x64_pattern_search(data, sections, checks) ==
    x64_pattern_search_from(data, sections, executable_sections(sections), 1, checks)

\* x86_pattern_search, arm64_pattern_search, arm32_pattern_search: placeholders.
x86_pattern_search == None
arm64_pattern_search == None
arm32_pattern_search == None

\* pattern_search
pattern_search(data, sections, arch, checks) ==
    CASE arch = "X64" -> x64_pattern_search(data, sections, checks)
      [] arch = "X86" -> x86_pattern_search
      [] arch = "Arm64" -> arm64_pattern_search
      [] arch = "Arm32" -> arm32_pattern_search
      [] OTHER -> None

\* A locator that tries the instruction-pattern scan before the symbol search.
search_registrations_pattern_first(data, sections, symbols, arch, expected_types, checks) ==
    LET by_pattern == pattern_search(data, sections, arch, checks) IN
    IF by_pattern.tag \in {"Some", "Panic"} THEN by_pattern
    ELSE symbol_search(symbols)

\* search_registrations
search_registrations(data, sections, symbols, arch, expected_types, checks) ==
    LET by_symbol == symbol_search(symbols) IN
    IF by_symbol.tag = "Some" THEN by_symbol
    ELSE LET by_count == plus_search(data, sections, arch, expected_types, checks) IN
         IF by_count.tag \in {"Some", "Panic"} THEN by_count
         ELSE pattern_search(data, sections, arch, checks)

\* Symbol names: the two registration names, the first with the leading
\* underscore Mach-O adds, and an unrelated one.
SymbolNames ==
    { g_CodeRegistration, g_MetadataRegistration, <<"_">> \o g_CodeRegistration,
      <<"m", "a", "i", "n">> }
\* Symbol tables: up to MaxSymbols symbols, the i-th at address 16 * i.
SymbolTables ==
    UNION { { [i \in 1 .. n |-> [name |-> names[i], address |-> 16 * i]] :
                names \in [1 .. n -> SymbolNames] } : n \in 0 .. MaxSymbols }

Fill(n, b) == [i \in 1 .. n |-> b]
\* File contents of a data section: nothing of interest, or the type count 3 as
\* an 8-byte little-endian integer (its first 4 bytes are the 4-byte encoding).
DataPayload(kind) ==
    IF kind = "count" THEN <<7>> \o to_le_bytes(3, 8) \o <<9>> ELSE Fill(10, 238)
\* File contents of an executable section: nops, or lea rcx,[rip+16] followed by
\* lea rdx,[rip-16].
TextPayload(kind) ==
    IF kind = "pattern"
    THEN pattern_lea_rcx \o <<16, 0, 0, 0>> \o pattern_lea_rdx \o <<240, 255, 255, 255>>
         \o Fill(8, 144)
    ELSE Fill(22, 144)

\* A binary of the locator checks: a data section followed by an executable one.
LocatorBinary(dkind, draw, dva, tkind, tva) ==
    LET dp == DataPayload(dkind)
        tp == TextPayload(tkind)
        file == dp \o tp
        droff == CASE draw = "inside" -> 0
                   [] draw = "beyond" -> Len(file) + 4
                   [] OTHER -> UsizeMax - 1
    IN  [data |-> file,
         sections |-> << Section(".data", dva, Len(dp), droff, Len(dp), {"READ", "WRITE"}),
                         Section(".text", tva, Len(tp), Len(dp), Len(tp), {"READ", "EXECUTE"}) >>]

LocatorBinaries ==
    { LocatorBinary(dkind, draw, dva, tkind, tva) :
        dkind \in {"none", "count"}, draw \in {"inside", "beyond", "wrap"},
        dva \in {256, SignedMax}, tkind \in {"none", "pattern"},
        tva \in {4096, SignedMax - 8} }

BfSearchRegistrations ==
    \E expected_types \in {3, 4} :
        BfApply([op |-> "search_registrations", expected_types |-> expected_types],
                search_registrations(bf_data, bf_sections, bf_symbols, bf_architecture,
                                     expected_types, overflow_checks))

InitLocator ==
    /\ overflow_checks \in BOOLEAN
    /\ \E b \in LocatorBinaries : bf_data = b.data /\ bf_sections = b.sections
    /\ bf_symbols \in SymbolTables
    /\ bf_architecture \in {"X64", "X86"}
    /\ bf_call = [op |-> "new"]
    /\ bf_result = None
    /\ rdIdle /\ mdIdle /\ dmIdle /\ moIdle /\ pcIdle

NextLocator == BfSearchRegistrations

SpecLocator == InitLocator /\ [][NextLocator]_vars

\* The symbols whose name contains the needle.
SymbolsNamed(needle) == { i \in 1 .. Len(bf_symbols) : contains(bf_symbols[i].name, needle) }
LastSymbolNamed(needle) ==
    CHOOSE i \in SymbolsNamed(needle) : \A j \in SymbolsNamed(needle) : j <= i

\* Some readable, non-executable section's file data holds the expected count.
HasCountWindow(expected_types) ==
    \E k \in 1 .. Len(bf_sections) :
        /\ "READ" \in bf_sections[k].characteristics
        /\ "EXECUTE" \notin bf_sections[k].characteristics
        /\ bf_sections[k].raw_offset + bf_sections[k].raw_size <= Len(bf_data)
        /\ \E o \in 0 .. bf_sections[k].raw_size :
               starts_with_at(bf_data, bf_sections[k].raw_offset + o,
                              to_le_bytes(expected_types, pointer_size(bf_architecture)))

\* C1: when the symbols include both registration names, search_registrations
\* returns exactly the addresses of those symbols (of the last symbol carrying
\* each name), whatever the data and executable sections hold.
C1_SymbolSearchWins ==
    (/\ bf_call.op = "search_registrations"
     /\ SymbolsNamed(g_CodeRegistration) # {}
     /\ SymbolsNamed(g_MetadataRegistration) # {})
        => bf_result =
             Some(SearchResult(bf_symbols[LastSymbolNamed(g_CodeRegistration)].address,
                               bf_symbols[LastSymbolNamed(g_MetadataRegistration)].address))

\* C1 witness: both symbols are present while a count window and an x64 lea
\* pattern candidate with other addresses exist; the symbols' addresses won.
C1_Witness ==
    /\ bf_call.op = "search_registrations"
    /\ SymbolsNamed(g_CodeRegistration) # {}
    /\ SymbolsNamed(g_MetadataRegistration) # {}
    /\ HasCountWindow(bf_call.expected_types)
    /\ pattern_search(bf_data, bf_sections, bf_architecture, overflow_checks).tag = "Some"
    /\ pattern_search(bf_data, bf_sections, bf_architecture, overflow_checks) # bf_result
    /\ bf_result.tag = "Some"

\* C2: search_registrations never panics; it returns absent or the complete
\* result of one single strategy.
C2_AbsentOrOneStrategy ==
    bf_call.op = "search_registrations"
        => \/ bf_result = None
           \/ /\ bf_result.tag = "Some"
              /\ bf_result \in
                   { symbol_search(bf_symbols),
                     plus_search(bf_data, bf_sections, bf_architecture,
                                 bf_call.expected_types, overflow_checks),
                     pattern_search(bf_data, bf_sections, bf_architecture, overflow_checks) }

-----------------------------------------------------------------------------
(* Metadata decoder (crates/il2cpp/src/metadata.rs)                         *)

\* METADATA_MAGIC = 0xFAB11BAF, held as the four bytes read_u32::<LittleEndian>
\* decodes it from (the value itself does not fit the integers of the model).
METADATA_MAGIC == <<175, 27, 177, 250>>
MIN_METADATA_VERSION == 16
MAX_METADATA_VERSION == 31

\* Error::Io(UnexpectedEof): a Cursor read past the end of its slice.
io_error == [tag |-> "Err", err |-> "Io", kind |-> "UnexpectedEof"]
\* Error::UnsupportedVersion(version)
UnsupportedVersion(version) == [tag |-> "Err", err |-> "UnsupportedVersion", version |-> version]
\* Error::InvalidMagic { expected, actual }
InvalidMagic(expected, actual) ==
    [tag |-> "Err", err |-> "InvalidMagic", expected |-> expected, actual |-> actual]

\* u32::from_le_bytes, u16::from_le_bytes, i16::from_le_bytes
u32_from_le_bytes(b) == b[1] + 256 * b[2] + 65536 * b[3] + 16777216 * b[4]
u16_from_le_bytes(b) == b[1] + 256 * b[2]
i16_from_le_bytes(b) == b[1] + 256 * (IF b[2] >= 128 THEN b[2] - 256 ELSE b[2])

\* The width of one Cursor read of the given kind.
FieldWidth(kind) ==
    CASE kind \in {"u32", "i32"} -> 4
      [] kind \in {"u16", "i16"} -> 2
      [] kind = "bytes8" -> 8

\* cursor.read_<kind>::<LittleEndian>() at the zero-based position `at`.
read_le(data, at, kind) ==
    LET b == Slice(data, at, at + FieldWidth(kind)) IN
    CASE kind = "u32" -> u32_from_le_bytes(b)
      [] kind = "i32" -> i32_from_le_bytes(b)
      [] kind = "u16" -> u16_from_le_bytes(b)
      [] kind = "i16" -> i16_from_le_bytes(b)
      [] kind = "bytes8" -> b

\* The (offset, size) pairs read_header reads, in the order it reads them.
HeaderBase ==
    << "string_literal", "string_literal_data", "string", "events", "properties",
       "methods", "parameter_default_values", "field_default_values",
       "field_and_parameter_default_value_data", "field_marshaled_sizes",
       "parameters", "fields", "generic_parameters", "generic_parameter_constraints",
       "generic_containers", "nested_types", "interfaces", "vtable_methods",
       "interface_offsets", "type_definitions", "images", "assemblies" >>
HeaderPairs(version) ==
    HeaderBase
    \o (IF version >= 19 THEN << "field_refs" >> ELSE << >>)
    \o (IF version >= 20 THEN << "referenced_assemblies" >> ELSE << >>)
    \o (IF version >= 21 THEN << "attribute_data", "attribute_data_range" >> ELSE << >>)
    \o (IF version >= 24
        THEN << "unresolvedvirtual_call_parameter_types",
                "unresolvedvirtual_call_parameter_ranges" >>
        ELSE << >>)
    \o (IF version >= 24 /\ version <= 24
        THEN << "windows_runtime_type_names", "windows_runtime_strings" >>
        ELSE << >>)
    \o (IF version >= 24 THEN << "exported_type_definitions" >> ELSE << >>)

\* Every (offset, size) pair of Il2CppGlobalMetadataHeader.
HeaderStruct == { HeaderPairs(24)[k] : k \in 1 .. Len(HeaderPairs(24)) }

\* The position of the first byte after the header read_header reads.
HeaderEnd(version) == 8 + 8 * Len(HeaderPairs(version))

\* Metadata::read_header: the cursor stands after magic and version; each pair
\* is two u32 reads; a pair the version does not read keeps its default 0.
read_header(data, version) ==
    LET pairs == HeaderPairs(version)
        index_of(p) == CHOOSE k \in 1 .. Len(pairs) : pairs[k] = p
    IN  IF Len(data) < HeaderEnd(version) THEN io_error
        ELSE Ok([p \in HeaderStruct |->
                   IF \E k \in 1 .. Len(pairs) : pairs[k] = p
                   THEN [offset |-> read_le(data, 8 * index_of(p), "u32"),
                         size |-> read_le(data, 8 * index_of(p) + 4, "u32")]
                   ELSE [offset |-> 0, size |-> 0]])

\* Metadata::type_def_size
type_def_size(version) ==
    IF version >= 27 THEN 88 ELSE IF version >= 24 THEN 80 ELSE 76


\* One Cursor read of a record reader: the struct field it fills and its kind.
F(name, kind) == [name |-> name, kind |-> kind]
FieldNames(fields) == { fields[k].name : k \in 1 .. Len(fields) }
\* The bytes the first k reads of a record reader consume.
RECURSIVE ReadLen(_, _)
ReadLen(fields, k) == IF k = 0 THEN 0 ELSE ReadLen(fields, k - 1) + FieldWidth(fields[k].kind)

\* The reads of read_type_definitions, in order.
TypeDefinitionFields ==
    << F("name_index", "u32"), F("namespace_index", "u32"), F("byval_type_index", "i32"),
       F("byref_type_index", "i32"), F("declaring_type_index", "i32"),
       F("parent_index", "i32"), F("element_type_index", "i32"),
       F("generic_container_index", "i32"), F("flags", "u32"), F("field_start", "i32"),
       F("method_start", "i32"), F("event_start", "i32"), F("property_start", "i32"),
       F("nested_types_start", "i32"), F("interfaces_start", "i32"),
       F("vtable_start", "i32"), F("interface_offsets_start", "i32"),
       F("method_count", "u16"), F("property_count", "u16"), F("field_count", "u16"),
       F("event_count", "u16"), F("nested_types_count", "u16"), F("vtable_count", "u16"),
       F("interfaces_count", "u16"), F("interface_offsets_count", "u16"),
       F("bitfield", "u32"), F("token", "u32") >>
\* The reads of read_method_definitions, in order.
MethodDefinitionFields(version) ==
    << F("name_index", "u32"), F("declaring_type", "i32"), F("return_type", "i32"),
       F("parameter_start", "i32") >>
    \o (IF version >= 24 THEN << F("generic_container_index", "i32") >> ELSE << >>)
    \o << F("token", "u32"), F("flags", "u16"), F("iflags", "u16"), F("slot", "u16"),
          F("parameter_count", "u16") >>
\* The reads of read_field_definitions, read_parameter_definitions,
\* read_property_definitions and read_event_definitions.
FieldDefinitionFields == << F("name_index", "u32"), F("type_index", "i32"), F("token", "u32") >>
ParameterDefinitionFields ==
    << F("name_index", "u32"), F("token", "u32"), F("type_index", "i32") >>
PropertyDefinitionFields ==
    << F("name_index", "u32"), F("get", "i32"), F("set", "i32"), F("attrs", "u32"),
       F("token", "u32") >>
EventDefinitionFields ==
    << F("name_index", "u32"), F("type_index", "i32"), F("add", "i32"), F("remove", "i32"),
       F("raise", "i32"), F("token", "u32") >>
\* The reads of read_image_definitions, in order.
ImageDefinitionFields(version) ==
    << F("name_index", "u32"), F("assembly_index", "i32"), F("type_start", "i32"),
       F("type_count", "u32") >>
    \o (IF version >= 24
        THEN << F("exported_type_start", "i32"), F("exported_type_count", "u32"),
                F("entry_point_index", "i32"), F("token", "u32"),
                F("custom_attribute_start", "i32"), F("custom_attribute_count", "u32") >>
        ELSE << >>)
\* The reads of read_assembly_definitions, in order (aname's fields prefixed).
AssemblyDefinitionFields(version) ==
    << F("image_index", "i32") >>
    \o (IF version >= 24 THEN << F("token", "u32") >> ELSE << >>)
    \o << F("referenced_assembly_start", "i32"), F("referenced_assembly_count", "i32"),
          F("aname_name_index", "u32"), F("aname_culture_index", "u32"),
          F("aname_public_key_index", "u32"), F("aname_hash_value_index", "u32"),
          F("aname_public_key_token", "bytes8"), F("aname_hash_alg", "u32"),
          F("aname_hash_len", "i32"), F("aname_flags", "u32"), F("aname_major", "i32"),
          F("aname_minor", "i32"), F("aname_build", "i32"), F("aname_revision", "i32") >>
\* The reads of read_generic_containers, read_generic_parameters and
\* read_string_literals.
GenericContainerFields ==
    << F("owner_index", "i32"), F("type_argc", "i32"), F("is_method", "i32"),
       F("generic_parameter_start", "i32") >>
GenericParameterFields ==
    << F("owner_index", "i32"), F("name_index", "u32"), F("constraints_start", "i16"),
       F("constraints_count", "i16"), F("num", "u16"), F("flags", "u16") >>
StringLiteralFields == << F("length", "u32"), F("data_index", "u32") >>

\* One record: a Cursor over &data[pos..] serves the reads in order, and the
\* first read past the end of data is an Io error that `?` returns.  A field of
\* the struct that no read fills keeps its Default value 0.
read_record(data, pos, fields, struct) ==
    LET index_of(n) == CHOOSE k \in 1 .. Len(fields) : fields[k].name = n IN
    IF pos + ReadLen(fields, Len(fields)) > Len(data) THEN io_error
    ELSE Ok([n \in struct |->
               IF n \in FieldNames(fields)
               THEN read_le(data, pos + ReadLen(fields, index_of(n) - 1),
                            fields[index_of(n)].kind)
               ELSE 0])

\* The loop `for i in 0..count` of a table reader, from iteration i on.
RECURSIVE read_records_from(_, _, _, _, _, _, _, _)
read_records_from(data, offset, count, record_size, fields, struct, i, result) ==
    IF i >= count THEN Ok(result)
    ELSE LET pos == offset + i * record_size IN
         IF pos + record_size > Len(data) THEN Ok(result)
         ELSE LET def == read_record(data, pos, fields, struct) IN
              IF def.tag = "Err" THEN def
              ELSE read_records_from(data, offset, count, record_size, fields, struct,
                                     i + 1, Append(result, def.val))

\* A table reader: count = size / record_size records from offset on.
read_records(data, table, record_size, fields, struct) ==
    read_records_from(data, table.offset, table.size \div record_size, record_size,
                      fields, struct, 0, << >>)


\* The record sizes the table readers step by.
method_size(version) == IF version >= 24 THEN 24 ELSE 20
field_size == 12
param_size == 12
prop_size == 20
event_size == 24
image_size(version) == IF version >= 24 THEN 40 ELSE 24
asm_size(version) == IF version >= 24 THEN 68 ELSE 64
container_size == 16
generic_param_size == 16
literal_size == 8

read_type_definitions(data, header, version) ==
    read_records(data, header["type_definitions"], type_def_size(version),
                 TypeDefinitionFields, FieldNames(TypeDefinitionFields))
read_method_definitions(data, header, version) ==
    read_records(data, header["methods"], method_size(version),
                 MethodDefinitionFields(version), FieldNames(MethodDefinitionFields(24)))
read_field_definitions(data, header) ==
    read_records(data, header["fields"], field_size,
                 FieldDefinitionFields, FieldNames(FieldDefinitionFields))
read_parameter_definitions(data, header) ==
    read_records(data, header["parameters"], param_size,
                 ParameterDefinitionFields, FieldNames(ParameterDefinitionFields))
read_property_definitions(data, header) ==
    read_records(data, header["properties"], prop_size,
                 PropertyDefinitionFields, FieldNames(PropertyDefinitionFields))
read_event_definitions(data, header) ==
    read_records(data, header["events"], event_size,
                 EventDefinitionFields, FieldNames(EventDefinitionFields))
read_image_definitions(data, header, version) ==
    read_records(data, header["images"], image_size(version),
                 ImageDefinitionFields(version), FieldNames(ImageDefinitionFields(24)))
read_assembly_definitions(data, header, version) ==
    read_records(data, header["assemblies"], asm_size(version),
                 AssemblyDefinitionFields(version), FieldNames(AssemblyDefinitionFields(24)))
read_generic_containers(data, header) ==
    read_records(data, header["generic_containers"], container_size,
                 GenericContainerFields, FieldNames(GenericContainerFields))
read_generic_parameters(data, header) ==
    read_records(data, header["generic_parameters"], generic_param_size,
                 GenericParameterFields, FieldNames(GenericParameterFields))
read_string_literals(data, header) ==
    read_records(data, header["string_literal"], literal_size,
                 StringLiteralFields, FieldNames(StringLiteralFields))

\* read_interfaces / read_nested_types: a table of bare i32 values.
read_i32_table(data, table) ==
    LET r == read_records(data, table, 4, << F("value", "i32") >>, {"value"}) IN
    IF r.tag = "Err" THEN r ELSE Ok([i \in 1 .. Len(r.val) |-> r.val[i].value])
read_interfaces(data, header) == read_i32_table(data, header["interfaces"])
read_nested_types(data, header) == read_i32_table(data, header["nested_types"])

\* Error::parse(msg) of the core crate.
Error_parse(msg) == [tag |-> "Err", err |-> "Parse", msg |-> msg]

\* The version check of Metadata::parse with the lower bound exclusive.
unsupported_version_min_exclusive(version) ==
    version <= MIN_METADATA_VERSION \/ version > MAX_METADATA_VERSION

\* The version check of Metadata::parse.
unsupported_version(version) ==
    version < MIN_METADATA_VERSION \/ version > MAX_METADATA_VERSION

\* The first error among the table readers' results, in the order parse runs
\* them (each call ends in `?`), or absent.
RECURSIVE first_error(_, _)
first_error(results, k) ==
    IF k > Len(results) THEN None
    ELSE IF results[k].tag = "Err" THEN Some(results[k])
    ELSE first_error(results, k + 1)

\* Metadata::parse
Metadata_parse(data) ==
    IF Len(data) < 8 THEN Error_parse("Metadata too small")
    ELSE IF Slice(data, 0, 4) # METADATA_MAGIC
    THEN InvalidMagic(METADATA_MAGIC, Slice(data, 0, 4))
    ELSE LET version == read_le(data, 4, "u32") IN
    IF unsupported_version(version) THEN UnsupportedVersion(version)
    ELSE LET h == read_header(data, version) IN
    IF h.tag = "Err" THEN h
    ELSE LET header == h.val
             type_definitions == read_type_definitions(data, header, version)
             method_definitions == read_method_definitions(data, header, version)
             field_definitions == read_field_definitions(data, header)
             parameter_definitions == read_parameter_definitions(data, header)
             property_definitions == read_property_definitions(data, header)
             event_definitions == read_event_definitions(data, header)
             image_definitions == read_image_definitions(data, header, version)
             assembly_definitions == read_assembly_definitions(data, header, version)
             generic_containers == read_generic_containers(data, header)
             generic_parameters == read_generic_parameters(data, header)
             string_literals == read_string_literals(data, header)
             interfaces == read_interfaces(data, header)
             nested_types == read_nested_types(data, header)
             failed == first_error(
                 << type_definitions, method_definitions, field_definitions,
                    parameter_definitions, property_definitions, event_definitions,
                    image_definitions, assembly_definitions, generic_containers,
                    generic_parameters, string_literals, interfaces, nested_types >>, 1)
         IN  IF failed.tag = "Some" THEN failed.val
             ELSE Ok([data |-> data,
                      header |-> header,
                      version |-> version,
                      type_definitions |-> type_definitions.val,
                      method_definitions |-> method_definitions.val,
                      field_definitions |-> field_definitions.val,
                      parameter_definitions |-> parameter_definitions.val,
                      property_definitions |-> property_definitions.val,
                      event_definitions |-> event_definitions.val,
                      image_definitions |-> image_definitions.val,
                      assembly_definitions |-> assembly_definitions.val,
                      generic_containers |-> generic_containers.val,
                      generic_parameters |-> generic_parameters.val,
                      string_literals |-> string_literals.val,
                      interfaces |-> interfaces.val,
                      nested_types |-> nested_types.val])

\* The tables of a parsed Metadata: the header pair that places each, the
\* member that holds its records and the record size its reader steps by.
MetadataTables(version) ==
    << [pair |-> "type_definitions", member |-> "type_definitions",
        record_size |-> type_def_size(version)],
       [pair |-> "methods", member |-> "method_definitions",
        record_size |-> method_size(version)],
       [pair |-> "fields", member |-> "field_definitions", record_size |-> field_size],
       [pair |-> "parameters", member |-> "parameter_definitions",
        record_size |-> param_size],
       [pair |-> "properties", member |-> "property_definitions",
        record_size |-> prop_size],
       [pair |-> "events", member |-> "event_definitions", record_size |-> event_size],
       [pair |-> "images", member |-> "image_definitions",
        record_size |-> image_size(version)],
       [pair |-> "assemblies", member |-> "assembly_definitions",
        record_size |-> asm_size(version)],
       [pair |-> "generic_containers", member |-> "generic_containers",
        record_size |-> container_size],
       [pair |-> "generic_parameters", member |-> "generic_parameters",
        record_size |-> generic_param_size],
       [pair |-> "string_literal", member |-> "string_literals",
        record_size |-> literal_size],
       [pair |-> "interfaces", member |-> "interfaces", record_size |-> 4],
       [pair |-> "nested_types", member |-> "nested_types", record_size |-> 4] >>


-----------------------------------------------------------------------------
(* Metadata decoder: inputs and steps                                       *)

\* Most records a table of a generated blob claims.
MaxRecords == 2
\* Bytes that follow the last table in a blob with slack after it.
SlackBytes == 16
\* Records an oversize fields table claims.
OversizeRecords == 40

RECURSIVE Concat(_, _)
Concat(seqs, k) == IF k = 0 THEN << >> ELSE Concat(seqs, k - 1) \o seqs[k]

\* The header bytes after magic and version: each pair of the version as two
\* little-endian u32 values.
HeaderBytes(version, place) ==
    LET pairs == HeaderPairs(version) IN
    Concat([k \in 1 .. Len(pairs) |->
              to_le_bytes(place[pairs[k]].offset, 4) \o to_le_bytes(place[pairs[k]].size, 4)],
           Len(pairs))
\* Record bytes: non-zero, below 128, varying with the position.
BodyBytes(n) == [i \in 1 .. n |-> ((7 * i) % 127) + 1]
NoTables == [p \in HeaderStruct |-> [offset |-> 0, size |-> 0]]
MetadataBlob(version, place, body_len) ==
    METADATA_MAGIC \o to_le_bytes(version, 4) \o HeaderBytes(version, place)
    \o BodyBytes(body_len)

\* Blobs too small for magic and version, and blobs with another magic.
SmallBlobs ==
    { << >>, METADATA_MAGIC, METADATA_MAGIC \o << 24, 0, 0 >>,
      << 175, 27, 177, 251 >> \o to_le_bytes(24, 4),
      << 0, 0, 0, 0 >> \o to_le_bytes(24, 4) \o HeaderBytes(24, NoTables) }

\* Header-only blobs with every offset and size zero, complete, one byte short
\* and cut after the version, for the versions around the supported range.
HeaderOnlyBlobs ==
    { SubSeq(MetadataBlob(version, NoTables, 0), 1,
             CASE cut = "complete" -> HeaderEnd(version)
               [] cut = "short" -> HeaderEnd(version) - 1
               [] OTHER -> 8) :
        version \in (MIN_METADATA_VERSION - 2) .. (MAX_METADATA_VERSION + 2),
        cut \in {"complete", "short", "version"} }

TableVersions == {16, 23, 24, 27, 31}

\* A blob with one table (the primary one) of `claimed` records after the
\* header, holding exactly its bytes, one byte less, or SlackBytes more, and
\* optionally a fields region of one record and five more bytes, before or
\* after the primary table, with a correct or an oversize claimed size.
TableBlob(version, p, claimed, tail, fmode, order) ==
    LET t == MetadataTables(version)[p]
        plen == claimed * t.record_size
                + (CASE tail = "exact" -> 0 [] tail = "short" -> -1 [] OTHER -> SlackBytes)
        flen == IF fmode = "none" THEN 0 ELSE field_size + 5
        he == HeaderEnd(version)
        poff == IF order = "before" THEN he + flen ELSE he
        foff == IF order = "before" THEN he ELSE he + plen
        fsize == CASE fmode = "none" -> 0
                   [] fmode = "correct" -> field_size
                   [] OTHER -> field_size * OversizeRecords
        place == [q \in HeaderStruct |->
                    IF q = t.pair THEN [offset |-> poff, size |-> claimed * t.record_size]
                    ELSE IF q = "fields" THEN [offset |-> foff, size |-> fsize]
                    ELSE [offset |-> 0, size |-> 0]]
    IN  MetadataBlob(version, place, plen + flen)

TableBlobs ==
    { TableBlob(version, p, claimed, tail, fmode, order) :
        version \in TableVersions, p \in 1 .. 13, claimed \in 1 .. MaxRecords,
        tail \in {"exact", "short", "slack"}, fmode \in {"none", "correct", "oversize"},
        order \in {"before", "after"} }

MetadataBlobs == SmallBlobs \cup HeaderOnlyBlobs \cup TableBlobs

\* Metadata::parse(&md_blob)
MdParse ==
    /\ md_result = None
    /\ md_result' = Metadata_parse(md_blob)
    /\ UNCHANGED <<overflow_checks, md_blob, rdVars, bfVars, dmVars, moVars, pcVars>>

InitMetadata ==
    /\ overflow_checks \in BOOLEAN
    /\ md_blob \in MetadataBlobs
    /\ md_result = None
    /\ rdIdle /\ bfIdle /\ dmIdle /\ moIdle /\ pcIdle

NextMetadata == MdParse

SpecMetadata == InitMetadata /\ [][NextMetadata]_vars


\* The blob starts with the magic and a version; the version it carries.
MdHasVersion == Len(md_blob) >= 8 /\ Slice(md_blob, 0, 4) = METADATA_MAGIC
MdVersion == read_le(md_blob, 4, "u32")
\* The blob holds the magic, a version of 16..=31 and that version's complete
\* header; the header it holds.
MdHasHeader ==
    /\ MdHasVersion
    /\ MdVersion \in 16 .. 31
    /\ Len(md_blob) >= HeaderEnd(MdVersion)
MdHeader == read_header(md_blob, MdVersion).val
\* The records of a table that lie entirely inside the blob, out of those its
\* header size claims.
ClaimedCount(t) == MdHeader[t.pair].size \div t.record_size
FitCount(t) ==
    IF MdHeader[t.pair].offset > Len(md_blob) THEN 0
    ELSE Min(ClaimedCount(t), (Len(md_blob) - MdHeader[t.pair].offset) \div t.record_size)
MdTables == { MetadataTables(MdVersion)[k] : k \in 1 .. 13 }
IsPrefix(s, t) == Len(s) <= Len(t) /\ \A k \in 1 .. Len(s) : s[k] = t[k]

\* C3: whatever a table claims, Metadata::parse of a blob with a complete
\* header returns Ok and every table holds exactly the records that fit
\* entirely inside the blob: a record that does not fit ends its table early,
\* and a table whose last record ends at the end of the blob is no error.
C3_TruncationNeverFailsParse ==
    (md_result # None /\ MdHasHeader)
        => /\ md_result.tag = "Ok"
           /\ \A t \in MdTables : Len(md_result.val[t.member]) = FitCount(t)

\* The blob with the size of its fields table set to the records that fit.
FieldsTable == MetadataTables(MdVersion)[3]
FieldsOversize == MdHasHeader /\ ClaimedCount(FieldsTable) > FitCount(FieldsTable)
CorrectedFieldsBlob ==
    [i \in 1 .. Len(md_blob) |->
        IF i \in 101 .. 104
        THEN to_le_bytes(field_size * FitCount(FieldsTable), 4)[i - 100]
        ELSE md_blob[i]]

\* C4: when the fields table claims more 12-byte records than fit inside the
\* blob, Metadata::parse returns Ok, the field list holds exactly the records
\* that fit (fewer than claimed), and every other table holds what it holds
\* when the fields size is correct.
C4_OversizeFieldsTable ==
    (md_result # None /\ FieldsOversize)
        => /\ md_result.tag = "Ok"
           /\ Len(md_result.val.field_definitions) = FitCount(FieldsTable)
           /\ Len(md_result.val.field_definitions) < ClaimedCount(FieldsTable)
           /\ Metadata_parse(CorrectedFieldsBlob).tag = "Ok"
           /\ \A t \in MdTables \ {FieldsTable} :
                  md_result.val[t.member] = Metadata_parse(CorrectedFieldsBlob).val[t.member]

\* The blob holds nothing but magic, version and the version's complete header
\* with every offset and size zero.
HeaderOnlyZero ==
    /\ MdHasVersion
    /\ Len(md_blob) = HeaderEnd(MdVersion)
    /\ \A i \in 9 .. Len(md_blob) : md_blob[i] = 0

\* C5: on a blob with the correct magic, Metadata::parse returns
\* UnsupportedVersion for every version below 16 or above 31, and for every
\* version in 16..=31 it returns Ok with all tables empty when the blob holds
\* only magic, version and the complete all-zero header.
C5_VersionGate ==
    (md_result # None /\ MdHasVersion)
        => /\ (MdVersion < 16 \/ MdVersion > 31) => md_result = UnsupportedVersion(MdVersion)
           /\ (MdVersion \in 16 .. 31 /\ HeaderOnlyZero)
                  => /\ md_result.tag = "Ok"
                     /\ md_result.val.version = MdVersion
                     /\ \A t \in MdTables : md_result.val[t.member] = << >>

\* C5 witness: the lowest supported version parsed from its header-only blob.
C5_Witness ==
    /\ md_result # None
    /\ HeaderOnlyZero
    /\ MdVersion = 16
    /\ md_result.tag = "Ok"

\* C10: the (offset, size) pairs read_header reads for the parsed version are
\* a prefix of the pairs it reads for every higher supported version.
C10_HeaderFieldsGrowByAppending ==
    (md_result # None /\ MdHasHeader)
        => \A w \in (MdVersion + 1) .. 31 : IsPrefix(HeaderPairs(MdVersion), HeaderPairs(w))


-----------------------------------------------------------------------------
(* Dumper (crates/il2cpp/src/dumper.rs)                                     *)
(* Strings are the sequences of their bytes.                                *)

\* "<unknown>", "void", "Type_", "param", "." and "$$"
str_unknown == <<60, 117, 110, 107, 110, 111, 119, 110, 62>>
str_void == <<118, 111, 105, 100>>
str_Type_ == <<84, 121, 112, 101, 95>>
str_param == <<112, 97, 114, 97, 109>>
str_dot == <<46>>
str_dollars == <<36, 36>>

\* format!("{}", n) for n >= 0: the decimal digits of n.
RECURSIVE Decimal(_)
Decimal(n) == IF n < 10 THEN <<48 + n>> ELSE Decimal(n \div 10) \o <<48 + (n % 10)>>

\* Option::unwrap_or
unwrap_or(opt, default) == IF opt.tag = "Some" THEN opt.val ELSE default

\* The values of the present items of a sequence of options, in order
\* (Iterator::filter_map(..).collect()).
RECURSIVE Somes(_, _)
Somes(opts, k) ==
    IF k = 0 THEN << >>
    ELSE Somes(opts, k - 1) \o (IF opts[k].tag = "Some" THEN << opts[k].val >> ELSE << >>)

\* An index taken as one-based.
get_one_based(seq, i) == IF 1 <= i /\ i <= Len(seq) THEN Some(seq[i]) ELSE None

\* <[T]>::get(i) for a zero-based index.
get(seq, i) == IF 0 <= i /\ i < Len(seq) THEN Some(seq[i + 1]) ELSE None

\* The zero-based position of the first NUL at or after offset, or the length.
RECURSIVE nul_or_end(_, _)
nul_or_end(data, offset) ==
    IF offset >= Len(data) THEN Len(data)
    ELSE IF data[offset + 1] = 0 THEN offset
    ELSE nul_or_end(data, offset + 1)

\* std::str::from_utf8(bytes).ok() on bytes that are ASCII or hold a 0xFF byte
\* (0xFF occurs in no UTF-8 encoding); the strings of the model hold no other.
from_utf8(bytes) ==
    IF \A k \in 1 .. Len(bytes) : bytes[k] < 128 THEN Some(bytes) ELSE None

\* Metadata::get_string
get_string(metadata, index) ==
    LET offset == metadata.header.string_offset + index IN
    IF offset >= Len(metadata.data) THEN None
    ELSE from_utf8(Slice(metadata.data, offset, nul_or_end(metadata.data, offset)))

\* String::from_utf16(units).ok(): absent when a unit is a surrogate (the
\* strings of the model hold no surrogate pairs).
from_utf16(units) ==
    IF \A k \in 1 .. Len(units) : units[k] < 55296 \/ units[k] > 57343
    THEN Some(units) ELSE None

\* Metadata::get_string_literal
get_string_literal(metadata, index) ==
    LET literal == get(metadata.string_literals, index) IN
    IF literal.tag = "None" THEN None
    ELSE LET offset == metadata.header.string_literal_data_offset + literal.val.data_index
             end == offset + literal.val.length * 2
         IN  IF end > Len(metadata.data) THEN None
             ELSE from_utf16([k \in 1 .. literal.val.length |->
                                u16_from_le_bytes(Slice(metadata.data, offset + 2 * (k - 1),
                                                        offset + 2 * k))])

\* namespace + "." + name whatever the namespace.
qualified_always_dotted(namespace, name) == namespace \o str_dot \o name

\* namespace + "." + name, or the bare name for an empty namespace.
qualified(namespace, name) ==
    IF namespace = << >> THEN name ELSE namespace \o str_dot \o name

\* Il2CppDumper::get_type_name
get_type_name(metadata, idx) ==
    LET type_def == get(metadata.type_definitions, idx) IN
    IF type_def.tag = "None" THEN None
    ELSE LET name == get_string(metadata, type_def.val.name_index) IN
         IF name.tag = "None" THEN None
         ELSE Some(qualified(unwrap_or(get_string(metadata, type_def.val.namespace_index),
                                       << >>),
                             name.val))

\* Il2CppDumper::get_type_name_by_index
get_type_name_by_index(type_index) ==
    IF type_index < 0 THEN str_void ELSE str_Type_ \o Decimal(type_index)

\* Il2CppDumper::get_interfaces
get_interfaces(metadata, type_def) ==
    IF type_def.interfaces_start < 0 \/ type_def.interfaces_count = 0 THEN << >>
    ELSE LET start == type_def.interfaces_start
             count == type_def.interfaces_count
             item(i) ==
                 LET interface_idx == get(metadata.interfaces, start + i) IN
                 IF interface_idx.tag = "None" THEN None
                 ELSE IF interface_idx.val >= 0
                 THEN get_type_name(metadata, interface_idx.val)
                 ELSE None
         IN  Somes([k \in 1 .. count |-> item(k - 1)], count)

\* Il2CppDumper::get_fields
get_fields(metadata, type_def) ==
    IF type_def.field_start < 0 \/ type_def.field_count = 0 THEN << >>
    ELSE LET start == type_def.field_start
             count == type_def.field_count
             item(i) ==
                 LET field_def == get(metadata.field_definitions, start + i) IN
                 IF field_def.tag = "None" THEN None
                 ELSE Some([name |-> unwrap_or(get_string(metadata, field_def.val.name_index),
                                               str_unknown),
                            type_name |-> get_type_name_by_index(field_def.val.type_index),
                            offset |-> 0,
                            is_static |-> FALSE,
                            is_const |-> FALSE,
                            default_value |-> None])
         IN  Somes([k \in 1 .. count |-> item(k - 1)], count)

\* Il2CppDumper::get_parameters
get_parameters(metadata, method_def) ==
    IF method_def.parameter_start < 0 \/ method_def.parameter_count = 0 THEN << >>
    ELSE LET start == method_def.parameter_start
             count == method_def.parameter_count
             item(i) ==
                 LET param_def == get(metadata.parameter_definitions, start + i) IN
                 IF param_def.tag = "None" THEN None
                 ELSE Some([name |-> unwrap_or(get_string(metadata, param_def.val.name_index),
                                               str_param \o Decimal(i)),
                            type_name |-> get_type_name_by_index(param_def.val.type_index),
                            index |-> i])
         IN  Somes([k \in 1 .. count |-> item(k - 1)], count)

\* Il2CppDumper::get_properties
get_properties(metadata, type_def) ==
    IF type_def.property_start < 0 \/ type_def.property_count = 0 THEN << >>
    ELSE LET start == type_def.property_start
             count == type_def.property_count
             item(i) ==
                 LET prop_def == get(metadata.property_definitions, start + i) IN
                 IF prop_def.tag = "None" THEN None
                 ELSE Some([name |-> unwrap_or(get_string(metadata, prop_def.val.name_index),
                                               str_unknown),
                            type_name |-> << >>,
                            getter |-> None,
                            setter |-> None])
         IN  Somes([k \in 1 .. count |-> item(k - 1)], count)


\* Address::ZERO
Address_ZERO == 0
\* type_attributes::{INTERFACE, ABSTRACT, SEALED}
type_attributes_INTERFACE == 32
type_attributes_ABSTRACT == 128
type_attributes_SEALED == 256
\* method_attributes::{STATIC, VIRTUAL, ABSTRACT}
method_attributes_STATIC == 16
method_attributes_VIRTUAL == 64
method_attributes_ABSTRACT == 1024
\* (value & bit) != 0 for a single-bit mask.
has_bit(value, bit) == (value \div bit) % 2 = 1

\* Uuid::new_v4(): an identifier no other record of the dump carries.
new_id(kind, idx) == [kind |-> kind, n |-> idx]

\* Il2CppDumper::process_method: type_definitions[declaring_type as usize]
\* panics when declaring_type addresses no type definition.
process_method(metadata, idx, method_def) ==
    LET name == unwrap_or(get_string(metadata, method_def.name_index), str_unknown)
        declaring == get(metadata.type_definitions, method_def.declaring_type)
    IN  IF method_def.declaring_type >= 0 /\ declaring.tag = "None" THEN Panic
        ELSE LET class_name ==
                     IF method_def.declaring_type >= 0
                     THEN unwrap_or(get_string(metadata, declaring.val.name_index),
                                    str_unknown)
                     ELSE << >>
                 namespace ==
                     IF method_def.declaring_type >= 0
                     THEN unwrap_or(get_string(metadata, declaring.val.namespace_index),
                                    << >>)
                     ELSE << >>
             IN  [tag |-> "Method",
                  id |-> new_id("method", idx),
                  name |-> name,
                  full_name |-> qualified(namespace, class_name) \o str_dollars \o name,
                  address |-> Address_ZERO,
                  return_type |-> get_type_name_by_index(method_def.return_type),
                  parameters |-> get_parameters(metadata, method_def),
                  class_name |-> class_name,
                  namespace |-> namespace,
                  is_static |-> has_bit(method_def.flags, method_attributes_STATIC),
                  is_virtual |-> has_bit(method_def.flags, method_attributes_VIRTUAL),
                  is_abstract |-> has_bit(method_def.flags, method_attributes_ABSTRACT),
                  token |-> method_def.token]

\* Il2CppDumper::process_type; method_map[i + 1] is the id of method i.
process_type(metadata, idx, type_def, method_map) ==
    LET name == unwrap_or(get_string(metadata, type_def.name_index), str_unknown)
        namespace == unwrap_or(get_string(metadata, type_def.namespace_index), << >>)
        method_ids ==
            IF type_def.method_start >= 0
            THEN Somes([k \in 1 .. type_def.method_count |->
                          get(method_map, type_def.method_start + k - 1)],
                       type_def.method_count)
            ELSE << >>
    IN  [id |-> new_id("type", idx),
         name |-> name,
         namespace |-> namespace,
         full_name |-> qualified(namespace, name),
         parent_type |-> IF type_def.parent_index >= 0
                         THEN get_type_name(metadata, type_def.parent_index)
                         ELSE None,
         interfaces |-> get_interfaces(metadata, type_def),
         fields |-> get_fields(metadata, type_def),
         methods |-> method_ids,
         properties |-> get_properties(metadata, type_def),
         is_enum |-> has_bit(type_def.bitfield, 1),
         is_interface |-> has_bit(type_def.flags, type_attributes_INTERFACE),
         is_abstract |-> has_bit(type_def.flags, type_attributes_ABSTRACT),
         is_sealed |-> has_bit(type_def.flags, type_attributes_SEALED),
         token |-> type_def.token]

\* Il2CppDumper::process_types_and_methods: all methods first, then all types.
process_types_and_methods(metadata) ==
    LET methods == [k \in 1 .. Len(metadata.method_definitions) |->
                      process_method(metadata, k - 1, metadata.method_definitions[k])]
    IN  IF \E k \in 1 .. Len(methods) : methods[k].tag = "Panic" THEN Panic
        ELSE LET method_map == [k \in 1 .. Len(methods) |-> methods[k].id] IN
             Ok([types |-> [k \in 1 .. Len(metadata.type_definitions) |->
                              process_type(metadata, k - 1, metadata.type_definitions[k],
                                           method_map)],
                 methods |-> methods])

\* Il2CppDumper::process_string_literals
process_string_literals(metadata) ==
    LET item(idx) ==
            LET value == get_string_literal(metadata, idx) IN
            IF value.tag = "None" THEN None
            ELSE Some([address |-> Address_ZERO, value |-> value.val, index |-> idx])
    IN  Somes([k \in 1 .. Len(metadata.string_literals) |-> item(k - 1)],
              Len(metadata.string_literals))

RECURSIVE total_fields(_, _)
total_fields(types, k) ==
    IF k = 0 THEN 0 ELSE total_fields(types, k - 1) + Len(types[k].fields)

\* Il2CppDumper::dump: the locator runs first and its result is dropped.
dump(data, sections, symbols, arch, metadata, checks) ==
    LET search_result == search_registrations(data, sections, symbols, arch,
                                              Len(metadata.type_definitions), checks)
    IN  IF search_result.tag = "Panic" THEN Panic
        ELSE LET tm == process_types_and_methods(metadata) IN
             IF tm.tag = "Panic" THEN Panic
             ELSE LET string_literals == process_string_literals(metadata) IN
                  Ok([timestamp |-> "Utc::now",
                      unity_version |-> None,
                      il2cpp_version |-> metadata.version,
                      types |-> tm.val.types,
                      methods |-> tm.val.methods,
                      string_literals |-> string_literals,
                      statistics |->
                          [total_types |-> Len(tm.val.types),
                           total_methods |-> Len(tm.val.methods),
                           total_fields |-> total_fields(tm.val.types, Len(tm.val.types)),
                           total_strings |-> Len(string_literals),
                           assemblies_count |-> Len(metadata.assembly_definitions)]])


-----------------------------------------------------------------------------
(* Dumper: inputs and steps                                                 *)

\* An index that addresses no record of any table of the generated metadata.
OutOfRangeIndex == 5

\* The string heap "", "A", "N", "m" and a string that is not UTF-8, each
\* NUL-terminated, followed by the UTF-16 data of the literal "hi".
DumpData == <<0, 65, 0, 78, 0, 109, 0, 255, 0, 104, 0, 105, 0>>

\* A type definition: its parent, one start and one count shared by its
\* interface, field, method and property ranges, and its namespace.
DumpTypeDef(name_index, namespace_index, parent_index, start, count) ==
    [name_index |-> name_index, namespace_index |-> namespace_index,
     parent_index |-> parent_index,
     interfaces_start |-> start, interfaces_count |-> count,
     field_start |-> start, field_count |-> count,
     method_start |-> start, method_count |-> count,
     property_start |-> start, property_count |-> count,
     flags |-> type_attributes_ABSTRACT + 1, bitfield |-> 1, token |-> 33554433]
DumpTypeDefs ==
    { DumpTypeDef(1, namespace_index, parent_index, start, count) :
        namespace_index \in {0, 3}, parent_index \in {-1, 0, 1, OutOfRangeIndex},
        start \in {-1, 0, OutOfRangeIndex}, count \in {0, 2} }
DumpMethodDef(declaring_type, return_type, parameter_start, parameter_count) ==
    [name_index |-> 5, declaring_type |-> declaring_type, return_type |-> return_type,
     parameter_start |-> parameter_start, parameter_count |-> parameter_count,
     flags |-> method_attributes_STATIC + 6, token |-> 100663297]
DumpMethodDefs ==
    { DumpMethodDef(declaring_type, return_type, parameter_start, parameter_count) :
        declaring_type \in {-1, 0, 1, OutOfRangeIndex}, return_type \in {-1, 1},
        parameter_start \in {-1, 0, OutOfRangeIndex}, parameter_count \in {0, 2} }

\* A parsed Metadata as the dumper reads it.
DumpMetadata(type_definitions, method_definitions) ==
    [data |-> DumpData,
     header |-> [string_offset |-> 0, string_literal_data_offset |-> 9],
     version |-> 24,
     type_definitions |-> type_definitions,
     method_definitions |-> method_definitions,
     field_definitions |-> << [name_index |-> 5, type_index |-> 0, token |-> 1],
                              [name_index |-> 99, type_index |-> -1, token |-> 2] >>,
     parameter_definitions |-> << [name_index |-> 99, token |-> 3, type_index |-> 7] >>,
     property_definitions |-> << [name_index |-> 1, get |-> 0, set |-> -1, attrs |-> 0,
                                  token |-> 4] >>,
     string_literals |-> << [length |-> 2, data_index |-> 0],
                            [length |-> 9, data_index |-> 0] >>,
     interfaces |-> << 0, -1, OutOfRangeIndex >>,
     assembly_definitions |-> << >>]
DumpMetadatas ==
    { DumpMetadata(types, methods) :
        types \in { << >> } \cup { << t >> : t \in DumpTypeDefs }
                  \cup { << t, DumpTypeDef(99, 0, -1, -1, 0) >> : t \in DumpTypeDefs },
        methods \in { << >> } \cup { << m >> : m \in DumpMethodDefs }
                    \cup { << m, [DumpMethodDef(-1, -1, -1, 0)
                                     EXCEPT !.name_index = 1, !.token = 100663298] >> :
                             m \in DumpMethodDefs } }

\* The binaries of a dump: no symbols, nothing to find; the data section's file
\* range lies inside the file or beyond the end of the address space.
DumpBinaries ==
    { LocatorBinary("none", draw, 256, "none", 4096) : draw \in {"inside", "wrap"} }

\* The symbol tables of a dump: none, or the two registration symbols.
DumpSymbols ==
    { << >>,
      << [name |-> g_CodeRegistration, address |-> 16],
         [name |-> g_MetadataRegistration, address |-> 32] >> }

\* Il2CppDumper::dump
DmDump ==
    /\ dm_metadata # None
    /\ dm_result = None
    /\ dm_result' = dump(bf_data, bf_sections, bf_symbols, bf_architecture,
                         dm_metadata.val, overflow_checks)
    /\ UNCHANGED <<overflow_checks, dm_metadata, rdVars, bfVars, mdVars, moVars, pcVars>>

\* Il2CppDumper::new has loaded a binary and a metadata blob.
InitDump ==
    /\ overflow_checks \in BOOLEAN
    /\ \E b \in DumpBinaries : bf_data = b.data /\ bf_sections = b.sections
    /\ bf_symbols \in DumpSymbols
    /\ bf_architecture = "X64"
    /\ bf_call = [op |-> "new"]
    /\ bf_result = None
    /\ \E m \in DumpMetadatas : dm_metadata = Some(m)
    /\ dm_result = None
    /\ rdIdle /\ mdIdle /\ moIdle /\ pcIdle

NextDump == DmDump

SpecDump == InitDump /\ [][NextDump]_vars

\* The locator call that opens the dump returned.
DumpSearchReturned ==
    search_registrations(bf_data, bf_sections, bf_symbols, bf_architecture,
                         Len(dm_metadata.val.type_definitions), overflow_checks).tag # "Panic"

\* C6: whatever cross-table indices the metadata holds (negative or addressing
\* no record), a dump whose locator call returned does not panic: it returns
\* Ok with one record per method definition and per type definition.
C6_IndicesNeverAbortDump ==
    (dm_result # None /\ DumpSearchReturned)
        => /\ dm_result.tag = "Ok"
           /\ Len(dm_result.val.methods) = Len(dm_metadata.val.method_definitions)
           /\ Len(dm_result.val.types) = Len(dm_metadata.val.type_definitions)


-----------------------------------------------------------------------------
(* Locator: the count-validated scan                                        *)

\* The addresses of the windows of readable, non-executable sections whose
\* file bytes equal the expected count as a pointer-width little-endian value.
CountWindowAddresses(expected_types) ==
    LET ptr == pointer_size(bf_architecture)
        scanned == { j \in 1 .. Len(bf_sections) :
                       /\ "READ" \in bf_sections[j].characteristics
                       /\ "EXECUTE" \notin bf_sections[j].characteristics
                       /\ bf_sections[j].raw_offset + bf_sections[j].raw_size
                              <= Len(bf_data) }
        windows(k) == { p \in 0 .. Len(bf_data) :
                          /\ p + ptr <= bf_sections[k].raw_size
                          /\ starts_with_at(bf_data, bf_sections[k].raw_offset + p,
                                            to_le_bytes(expected_types, ptr)) }
    IN  UNION { { (bf_sections[k].virtual_address + o) % UsizeMod : o \in windows(k) } :
                k \in scanned }

\* C11: when symbol search finds nothing and a readable, non-executable
\* section holds a window equal to the expected type count, search_registrations
\* succeeds from the count scan: its metadata registration is such a window's
\* address.
C11_CountScanSucceeds ==
    (/\ bf_call.op = "search_registrations"
     /\ symbol_search(bf_symbols) = None
     /\ CountWindowAddresses(bf_call.expected_types) # {})
        => /\ bf_result.tag = "Some"
           /\ bf_result.val.metadata_registration
                  \in CountWindowAddresses(bf_call.expected_types)


-----------------------------------------------------------------------------
(* Dumper: the locator's part in the dump                                   *)

\* What the locator call that opens the dump returns.
DumpLocated ==
    search_registrations(bf_data, bf_sections, bf_symbols, bf_architecture,
                         Len(dm_metadata.val.type_definitions), overflow_checks)
\* The string literals of the metadata that decode.
DecodableLiterals ==
    { i \in 0 .. Len(dm_metadata.val.string_literals) - 1 :
        get_string_literal(dm_metadata.val, i).tag = "Some" }

\* C12: a dump of a loaded binary and metadata returns Ok with one record per
\* type definition, per method definition and per decodable string literal,
\* whatever the locator does; when the locator returns absent every method
\* address and every string-literal address is zero.
C12_DumpSucceedsWithoutLocator ==
    dm_result # None
        => /\ dm_result.tag = "Ok"
           /\ Len(dm_result.val.types) = Len(dm_metadata.val.type_definitions)
           /\ Len(dm_result.val.methods) = Len(dm_metadata.val.method_definitions)
           /\ { dm_result.val.string_literals[k].index :
                   k \in 1 .. Len(dm_result.val.string_literals) } = DecodableLiterals
           /\ DumpLocated = None
                  => /\ \A k \in 1 .. Len(dm_result.val.methods) :
                            dm_result.val.methods[k].address = 0
                     /\ \A k \in 1 .. Len(dm_result.val.string_literals) :
                            dm_result.val.string_literals[k].address = 0

\* A dump result without its time stamp.
WithoutTimestamp(r) == [f \in DOMAIN r \ {"timestamp"} |-> r[f]]

\* C13: when the locator succeeds on a binary on which it finds nothing once
\* the symbols are taken away, the dump differs (apart from its time stamp)
\* from the dump of the same metadata and the binary without its symbols.
C13_LocatorResultReachesOutput ==
    (/\ dm_result # None
     /\ dm_result.tag = "Ok"
     /\ DumpLocated.tag = "Some"
     /\ search_registrations(bf_data, bf_sections, << >>, bf_architecture,
                             Len(dm_metadata.val.type_definitions), overflow_checks) = None)
        => WithoutTimestamp(dm_result.val)
             # WithoutTimestamp(dump(bf_data, bf_sections, << >>, bf_architecture,
                                     dm_metadata.val, overflow_checks).val)


-----------------------------------------------------------------------------
(* Dumper: names                                                            *)

DumpedTypes == dm_result.val.types
DumpedMethods == dm_result.val.methods

\* C14: in every dump result a type's full_name is namespace, ".", name when
\* its namespace is not empty and its bare name otherwise, and the full_name
\* of a method whose declaring type exists is that type's full_name, "$$" and
\* the method's name.
C14_FullNames ==
    (dm_result # None /\ dm_result.tag = "Ok")
        => /\ \A k \in 1 .. Len(DumpedTypes) :
                  DumpedTypes[k].full_name =
                      IF DumpedTypes[k].namespace # << >>
                      THEN DumpedTypes[k].namespace \o <<46>> \o DumpedTypes[k].name
                      ELSE DumpedTypes[k].name
           /\ \A k \in 1 .. Len(DumpedMethods) :
                  LET d == dm_metadata.val.method_definitions[k].declaring_type IN
                  (d >= 0 /\ d < Len(DumpedTypes))
                      => DumpedMethods[k].full_name =
                             DumpedTypes[d + 1].full_name \o <<36, 36>> \o DumpedMethods[k].name

\* C14 witness: a dump holds a method "m" of the type "A" of namespace "N",
\* named N.A$$m, while the dump's other type has an empty namespace.
C14_Witness ==
    /\ dm_result # None
    /\ dm_result.tag = "Ok"
    /\ Len(DumpedTypes) = 2
    /\ DumpedTypes[1].full_name = <<78, 46, 65>>
    /\ DumpedTypes[2].namespace = << >>
    /\ Len(DumpedMethods) >= 1
    /\ dm_metadata.val.method_definitions[1].declaring_type = 0
    /\ DumpedMethods[1].full_name = <<78, 46, 65, 36, 36, 109>>


\* What the claimed type-index resolution allows as the text of an index: "void"
\* for a negative index, the type's name when the index addresses a type
\* definition with a name, anything otherwise.
ResolvesAs(type_index, text) ==
    IF type_index < 0 THEN text = <<118, 111, 105, 100>>
    ELSE get_type_name(dm_metadata.val, type_index).tag = "Some"
             => text = get_type_name(dm_metadata.val, type_index).val

\* C15: in every dump result the return type of each method, the type of each
\* field and the type of each parameter is "void" for a negative type index
\* and the real type name for an index that addresses a known type definition.
C15_TypeIndexResolution ==
    (dm_result # None /\ dm_result.tag = "Ok")
        => /\ \A k \in 1 .. Len(DumpedMethods) :
                  LET method_def == dm_metadata.val.method_definitions[k] IN
                  /\ ResolvesAs(method_def.return_type, DumpedMethods[k].return_type)
                  /\ \A j \in 1 .. Len(DumpedMethods[k].parameters) :
                         ResolvesAs(dm_metadata.val.parameter_definitions[
                                        method_def.parameter_start + j].type_index,
                                    DumpedMethods[k].parameters[j].type_name)
           /\ \A k \in 1 .. Len(DumpedTypes) :
                  \A j \in 1 .. Len(DumpedTypes[k].fields) :
                      ResolvesAs(dm_metadata.val.field_definitions[
                                     dm_metadata.val.type_definitions[k].field_start + j]
                                     .type_index,
                                 DumpedTypes[k].fields[j].type_name)

\* What the claimed property resolution gives for a get / set index: the
\* identifier of the method it addresses in the flat list, absent for -1.
AccessorOf(method_index) ==
    IF method_index >= 0 /\ method_index < Len(DumpedMethods)
    THEN Some(DumpedMethods[method_index + 1].id)
    ELSE None

\* C16: in every dump result the getter and the setter of each property are
\* the identifiers of the methods its definition's get and set address, and
\* absent when the index is -1 or addresses no method definition.
C16_PropertyAccessors ==
    (dm_result # None /\ dm_result.tag = "Ok")
        => \A k \in 1 .. Len(DumpedTypes) :
               \A j \in 1 .. Len(DumpedTypes[k].properties) :
                   LET prop_def == dm_metadata.val.property_definitions[
                                       dm_metadata.val.type_definitions[k].property_start + j]
                   IN  /\ DumpedTypes[k].properties[j].getter = AccessorOf(prop_def.get)
                       /\ DumpedTypes[k].properties[j].setter = AccessorOf(prop_def.set)


-----------------------------------------------------------------------------
(* Dumper: the flat method list                                             *)

\* The identifiers of the methods at the zero-based indices start .. start +
\* count - 1 that exist in the flat method list, in order.
RECURSIVE MethodIdsIn(_, _)
MethodIdsIn(start, count) ==
    IF count = 0 THEN << >>
    ELSE MethodIdsIn(start, count - 1)
         \o (IF start + count - 1 < Len(DumpedMethods)
             THEN << DumpedMethods[start + count].id >> ELSE << >>)

\* C17: in every dump result the flat method list holds each method definition
\* once, in table order, each with an identifier of its own; a type's method
\* list is the identifiers of the existing methods at method_start ..
\* method_start + method_count - 1 in order, empty for a negative method_start;
\* and every identifier a type lists is the identifier of exactly one method.
C17_FlatMethodList ==
    (dm_result # None /\ dm_result.tag = "Ok")
        => /\ Len(DumpedMethods) = Len(dm_metadata.val.method_definitions)
           /\ \A k \in 1 .. Len(DumpedMethods) :
                  DumpedMethods[k].token = dm_metadata.val.method_definitions[k].token
           /\ \A j, k \in 1 .. Len(DumpedMethods) :
                  j # k => DumpedMethods[j].id # DumpedMethods[k].id
           /\ \A k \in 1 .. Len(DumpedTypes) :
                  LET type_def == dm_metadata.val.type_definitions[k] IN
                  /\ DumpedTypes[k].methods =
                         IF type_def.method_start < 0 THEN << >>
                         ELSE MethodIdsIn(type_def.method_start, type_def.method_count)
                  /\ \A j \in 1 .. Len(DumpedTypes[k].methods) :
                         Cardinality({ i \in 1 .. Len(DumpedMethods) :
                                         DumpedMethods[i].id = DumpedTypes[k].methods[j] }) = 1

\* C17 witness: a dump of two methods with different tokens and a type whose
\* method range 0 .. 1 lists both of them.
C17_Witness ==
    /\ dm_result # None
    /\ dm_result.tag = "Ok"
    /\ Len(DumpedMethods) = 2
    /\ DumpedMethods[1].token # DumpedMethods[2].token
    /\ Len(DumpedTypes) >= 1
    /\ dm_metadata.val.type_definitions[1].method_start = 0
    /\ DumpedTypes[1].methods = << DumpedMethods[1].id, DumpedMethods[2].id >>


-----------------------------------------------------------------------------
(* Format parsers (crates/binary-parser/src/{pe,elf,macho}.rs)               *)
(* A value read from the file is held as its bytes, most significant first,  *)
(* as read_u16 / read_u32 / read_u64 return it; constants of the code are    *)
(* written the same way.                                                     *)

\* ParseError::invalid_header(msg)
invalid_header(msg) == [tag |-> "Err", err |-> "InvalidHeader", msg |-> msg]

\* A position beyond every file of the model and far below the top of the word.
Far == UsizeMod \div 8
\* `as usize` / `as u64` of a value read, on the scaled word: a small value is
\* itself, a u64 within Far of u64::MAX is as close to the top of the scaled
\* word, and every other value is the position Far.
as_usize(bytes) ==
    LET n == Len(bytes)
        low == IF n = 1 THEN bytes[1] ELSE 256 * bytes[n - 1] + bytes[n]
        high == { bytes[k] : k \in 1 .. n - 2 }
    IN  IF high \subseteq {0} /\ low < Far THEN low
        ELSE IF n = 8 /\ high = {255} /\ 65536 - low <= Far THEN UsizeMod - (65536 - low)
        ELSE Far

\* A value bound to a name for the expression that follows.
Then(x, Body(_)) == Body(x)

\* One call on the reader inside a parser: the local it fills, the call and the
\* byte count.
Rd(name, n) == [name |-> name, op |-> "read", n |-> n]
RdBytes(name, n) == [name |-> name, op |-> "read_bytes", n |-> n]
RdSkip(n) == [name |-> "_", op |-> "skip", n |-> n]

\* A run of reader calls each followed by `?`: the locals read and the cursor
\* after the last call, or the first error (or panic) a call returns.
RECURSIVE read_fields_from(_, _, _, _, _, _, _)
read_fields_from(data, offset, calls, k, locals, little_endian, checks) ==
    IF k > Len(calls) THEN RdStep(Ok(locals), offset)
    ELSE LET c == calls[k]
             step == CASE c.op = "read_bytes" -> read_bytes(data, offset, c.n, checks)
                       [] c.op = "skip" -> skip(data, offset, c.n, checks)
                       [] c.n = 1 -> read_u8(data, offset)
                       [] OTHER -> read_fixed(data, offset, c.n, little_endian, checks)
         IN  IF step.res.tag # "Ok" THEN RdStep(step.res, offset)
             ELSE read_fields_from(data, step.offset, calls, k + 1,
                                   (c.name :> step.res.val) @@ locals, little_endian, checks)

read_fields(data, offset, calls, little_endian, checks) ==
    read_fields_from(data, offset, calls, 1, << >>, little_endian, checks)

\* trim_end_matches('\0') of a name field.
RECURSIVE trim_end_nul(_)
trim_end_nul(bytes) ==
    IF Len(bytes) > 0 /\ bytes[Len(bytes)] = 0
    THEN trim_end_nul(SubSeq(bytes, 1, Len(bytes) - 1))
    ELSE bytes

\* `value & bit != 0` for a one-bit mask of one byte.
HasBit(byte, bit) == (byte \div bit) % 2 = 1

-----------------------------------------------------------------------------
(* PE (crates/binary-parser/src/pe.rs)                                       *)

DOS_MAGIC == <<90, 77>>
PE_SIGNATURE == <<0, 0, 69, 80>>
IMAGE_FILE_MACHINE_I386 == <<1, 76>>
IMAGE_FILE_MACHINE_AMD64 == <<134, 100>>
IMAGE_FILE_MACHINE_ARM == <<1, 192>>
IMAGE_FILE_MACHINE_ARM64 == <<170, 100>>
PE32_MAGIC == <<1, 11>>
PE32PLUS_MAGIC == <<2, 11>>

\* The section characteristics mapped to the unified flags (pe.rs:139-154).
pe_section_flags(characteristics) ==
    (IF HasBit(characteristics[1], 64) THEN {"READ"} ELSE {})
    \cup (IF HasBit(characteristics[1], 128) THEN {"WRITE"} ELSE {})
    \cup (IF HasBit(characteristics[1], 32) THEN {"EXECUTE"} ELSE {})
    \cup (IF HasBit(characteristics[4], 64) THEN {"INITIALIZED"} ELSE {})
    \cup (IF HasBit(characteristics[4], 128) THEN {"UNINITIALIZED"} ELSE {})

\* The reader calls of one section header (pe.rs:125-137).
PeSectionHeader ==
    << RdBytes("name_bytes", 8), Rd("virtual_size", 4), Rd("virtual_address", 4),
       Rd("size_of_raw_data", 4), Rd("pointer_to_raw_data", 4), RdSkip(4), RdSkip(4),
       RdSkip(2), RdSkip(2), Rd("characteristics", 4) >>

\* The Section of one section header h (pe.rs:139-164); va is image_base +
\* virtual_address.
pe_section(h, va) ==
    Section(trim_end_nul(h["name_bytes"]), va, as_usize(h["virtual_size"]),
            as_usize(h["pointer_to_raw_data"]), as_usize(h["size_of_raw_data"]),
            pe_section_flags(h["characteristics"]))

\* The loop over the section headers, from iteration i on (pe.rs:124-165).
RECURSIVE pe_sections_from(_, _, _, _, _, _, _)
pe_sections_from(data, offset, number_of_sections, i, image_base, sections, checks) ==
    IF i >= number_of_sections THEN Ok(sections)
    ELSE Then(read_fields(data, offset, PeSectionHeader, TRUE, checks),
              LAMBDA h :
                 IF h.res.tag # "Ok" THEN h.res
                 ELSE IF add_usize(image_base, as_usize(h.res.val["virtual_address"])).ovf
                         /\ checks
                 THEN Panic
                 ELSE pe_sections_from(
                          data, h.offset, number_of_sections, i + 1, image_base,
                          Append(sections,
                                 pe_section(h.res.val,
                                            add_usize(image_base,
                                                      as_usize(h.res.val["virtual_address"])).val)),
                          checks))

\* Architecture of the COFF machine field (pe.rs:74-80).
pe_architecture(machine) ==
    CASE machine = IMAGE_FILE_MACHINE_I386 -> "X86"
      [] machine = IMAGE_FILE_MACHINE_AMD64 -> "X64"
      [] machine = IMAGE_FILE_MACHINE_ARM -> "Arm32"
      [] machine = IMAGE_FILE_MACHINE_ARM64 -> "Arm64"
      [] OTHER -> "Unknown"

\* The reader calls of the COFF header and of the optional header up to
\* image_base (pe.rs:66-72, 96-117).
PeCoffHeader ==
    << Rd("machine", 2), Rd("number_of_sections", 2), Rd("_time_date_stamp", 4),
       Rd("_pointer_to_symbol_table", 4), Rd("_number_of_symbols", 4),
       Rd("size_of_optional_header", 2), Rd("_characteristics", 2) >>
PeOptionalHeader(is_64bit) ==
    << RdSkip(2), RdSkip(4), RdSkip(4), RdSkip(4), Rd("address_of_entry_point", 4),
       RdSkip(4) >>
    \o (IF is_64bit THEN << >> ELSE << RdSkip(4) >>)
    \o << Rd("image_base", IF is_64bit THEN 8 ELSE 4) >>

\* PeFile::parse from the section table on: head is the COFF header, std the
\* optional header read.
pe_parse_sections(data, head, optional_header_offset, is_64bit, std, checks) ==
    IF add_usize(optional_header_offset, as_usize(head["size_of_optional_header"])).ovf
       /\ checks
    THEN Panic
    ELSE Then(pe_sections_from(
                  data,
                  add_usize(optional_header_offset,
                            as_usize(head["size_of_optional_header"])).val,
                  as_usize(head["number_of_sections"]), 0, as_usize(std["image_base"]),
                  << >>, checks),
              LAMBDA sections :
                 IF sections.tag # "Ok" THEN sections
                 ELSE IF add_usize(as_usize(std["image_base"]),
                                   as_usize(std["address_of_entry_point"])).ovf /\ checks
                 THEN Panic
                 ELSE Ok([format |-> "PE",
                          data |-> data,
                          architecture |-> pe_architecture(head["machine"]),
                          image_base |-> as_usize(std["image_base"]),
                          entry_point |->
                              add_usize(as_usize(std["image_base"]),
                                        as_usize(std["address_of_entry_point"])).val,
                          sections |-> sections.val,
                          symbols |-> << >>,
                          is_64bit |-> is_64bit]))

\* PeFile::parse from the optional header on.
pe_parse_optional(data, head, optional_header_offset, checks) ==
    Then(read_fields(data, optional_header_offset, << Rd("optional_magic", 2) >>, TRUE,
                     checks),
         LAMBDA opt :
            IF opt.res.tag # "Ok" THEN opt.res
            ELSE IF opt.res.val["optional_magic"] \notin {PE32_MAGIC, PE32PLUS_MAGIC}
            THEN invalid_header(<<"Invalid optional header magic: ",
                                  opt.res.val["optional_magic"]>>)
            ELSE Then(read_fields(data, opt.offset,
                                  PeOptionalHeader(opt.res.val["optional_magic"]
                                                       = PE32PLUS_MAGIC),
                                  TRUE, checks),
                      LAMBDA std :
                         IF std.res.tag # "Ok" THEN std.res
                         ELSE pe_parse_sections(
                                  data, head, optional_header_offset,
                                  opt.res.val["optional_magic"] = PE32PLUS_MAGIC,
                                  std.res.val, checks)))

\* PeFile::parse from the PE signature on.
pe_parse_at(data, pe_offset, checks) ==
    Then(read_fields(data, pe_offset, << Rd("pe_sig", 4) >>, TRUE, checks),
         LAMBDA sig :
            IF sig.res.tag # "Ok" THEN sig.res
            ELSE IF sig.res.val["pe_sig"] # PE_SIGNATURE
            THEN InvalidMagic(PE_SIGNATURE, sig.res.val["pe_sig"])
            ELSE Then(read_fields(data, sig.offset, PeCoffHeader, TRUE, checks),
                      LAMBDA head :
                         IF head.res.tag # "Ok" THEN head.res
                         ELSE pe_parse_optional(data, head.res.val, head.offset, checks)))

\* PeFile::parse
PeFile_parse(data, checks) ==
    Then(read_fields(data, 0, << Rd("dos_magic", 2) >>, TRUE, checks),
         LAMBDA dos :
            IF dos.res.tag # "Ok" THEN dos.res
            ELSE IF dos.res.val["dos_magic"] # DOS_MAGIC
            THEN InvalidMagic(DOS_MAGIC, dos.res.val["dos_magic"])
            ELSE Then(read_fields(data, 60, << Rd("pe_offset", 4) >>, TRUE, checks),
                      LAMBDA lfanew :
                         IF lfanew.res.tag # "Ok" THEN lfanew.res
                         ELSE pe_parse_at(data, as_usize(lfanew.res.val["pe_offset"]),
                                          checks)))

-----------------------------------------------------------------------------
(* ELF (crates/binary-parser/src/elf.rs)                                     *)

ELF_MAGIC == <<127, 69, 76, 70>>
EM_386 == <<0, 3>>
EM_ARM == <<0, 40>>
EM_X86_64 == <<0, 62>>
EM_AARCH64 == <<0, 183>>
SHT_SYMTAB == <<0, 0, 0, 2>>
SHT_STRTAB == <<0, 0, 0, 3>>
SHT_DYNSYM == <<0, 0, 0, 11>>

\* A product or a count that cannot overflow the real word, on the scaled word:
\* itself when small, the position Far otherwise.
far(x) == Min(x, Far)

\* The loop `while end < data.len() && data[end] != 0 { end += 1 }`.
RECURSIVE name_end(_, _)
name_end(data, end) ==
    IF end < Len(data) /\ data[end + 1] # 0 THEN name_end(data, end + 1) ELSE end

\* The name at strtab_offset + name in the file: the bytes up to the next zero
\* byte or the end of the file.  The addition is unchecked, and the slice
\* &data[name_offset..end] panics when name_offset lies behind the file.
name_at(data, strtab_offset, name, checks) ==
    LET name_offset == add_usize(strtab_offset, name) IN
    IF name_offset.ovf /\ checks THEN Panic
    ELSE LET end == name_end(data, name_offset.val) IN
         IF ~SliceOk(data, name_offset.val, end) THEN Panic
         ELSE Ok(Slice(data, name_offset.val, end))

\* The reader calls of the ELF header after e_ident and of one section header.
ElfHeader(is_64bit) ==
    LET w == IF is_64bit THEN 8 ELSE 4 IN
    << Rd("_e_type", 2), Rd("e_machine", 2), Rd("_e_version", 4), Rd("e_entry", w),
       Rd("e_phoff", w), Rd("e_shoff", w), Rd("_e_flags", 4), Rd("_e_ehsize", 2),
       Rd("e_phentsize", 2), Rd("e_phnum", 2), Rd("e_shentsize", 2), Rd("e_shnum", 2),
       Rd("e_shstrndx", 2) >>
ElfSectionHeader(is_64bit) ==
    LET w == IF is_64bit THEN 8 ELSE 4 IN
    << Rd("sh_name", 4), Rd("sh_type", 4), Rd("sh_flags", w), Rd("sh_addr", w),
       Rd("sh_offset", w), Rd("sh_size", w) >>

\* The loop over the section headers, from iteration i on (elf.rs:131-162):
\* the raw sections, or the error of the first read that fails.
RECURSIVE elf_raw_sections_from(_, _, _, _, _, _)
elf_raw_sections_from(data, h, i, raw_sections, fmt, checks) ==
    IF i >= h.sh_num THEN Ok(raw_sections)
    ELSE IF add_usize(h.sh_offset, far(i * h.sh_entsize)).ovf /\ checks THEN Panic
    ELSE Then(read_fields(data, add_usize(h.sh_offset, far(i * h.sh_entsize)).val,
                          ElfSectionHeader(fmt.is_64bit), fmt.little_endian, checks),
              LAMBDA s :
                 IF s.res.tag # "Ok" THEN s.res
                 ELSE elf_raw_sections_from(data, h, i + 1, Append(raw_sections, s.res.val),
                                            fmt, checks))

\* The section flags mapped to the unified flags (elf.rs:178-187).
elf_section_flags(sh_flags) ==
    LET low == sh_flags[Len(sh_flags)] IN
    (IF HasBit(low, 2) THEN {"READ"} ELSE {})
    \cup (IF HasBit(low, 1) THEN {"WRITE"} ELSE {})
    \cup (IF HasBit(low, 4) THEN {"EXECUTE"} ELSE {})

\* The Section of one raw section with its name resolved (elf.rs:189-196).
elf_section(raw, name) ==
    Section(name, as_usize(raw["sh_addr"]), as_usize(raw["sh_size"]),
            as_usize(raw["sh_offset"]), as_usize(raw["sh_size"]),
            elf_section_flags(raw["sh_flags"]))

\* The loop that resolves the section names, from raw section k on
\* (elf.rs:166-197).
RECURSIVE elf_sections_from(_, _, _, _, _, _)
elf_sections_from(data, raw_sections, k, strtab, sections, checks) ==
    IF k > Len(raw_sections) THEN Ok(sections)
    ELSE Then(IF strtab.size > 0 /\ as_usize(raw_sections[k]["sh_name"]) < strtab.size
              THEN name_at(data, strtab.offset, as_usize(raw_sections[k]["sh_name"]), checks)
              ELSE Ok(<< >>),
              LAMBDA name :
                 IF name.tag # "Ok" THEN name
                 ELSE elf_sections_from(data, raw_sections, k + 1, strtab,
                                        Append(sections, elf_section(raw_sections[k], name.val)),
                                        checks))

\* The reader calls of one symbol-table entry (elf.rs:247-261).
ElfSymbol(is_64bit) ==
    IF is_64bit
    THEN << Rd("st_name", 4), Rd("st_info", 1), Rd("_st_other", 1), Rd("_st_shndx", 2),
            Rd("st_value", 8), Rd("st_size", 8) >>
    ELSE << Rd("st_name", 4), Rd("st_value", 4), Rd("st_size", 4), Rd("st_info", 1) >>

\* SymbolType of st_info & 0xf (elf.rs:277-284).
elf_symbol_type(st_info) ==
    CASE st_info % 16 = 2 -> "Function"
      [] st_info % 16 = 1 -> "Object"
      [] st_info % 16 = 3 -> "Section"
      [] st_info % 16 = 4 -> "File"
      [] OTHER -> "Unknown"

\* common.rs Symbol
Symbol(name, address, size, symbol_type) ==
    [name |-> name, address |-> address, size |-> size, symbol_type |-> symbol_type]

\* One symbol entry e with its name read: the symbols after it (elf.rs:271-292).
elf_symbol_named(e, name, symbols) ==
    IF name = << >> THEN symbols
    ELSE Append(symbols,
                Symbol(name, as_usize(e["st_value"]),
                       IF as_usize(e["st_size"]) > 0 THEN Some(as_usize(e["st_size"]))
                       ELSE None,
                       elf_symbol_type(e["st_info"][1])))

\* The loop over the entries of one symbol table, from entry j on
\* (elf.rs:243-293).
RECURSIVE elf_symbols_in(_, _, _, _, _, _, _)
elf_symbols_in(data, symtab, strtab, j, symbols, fmt, checks) ==
    IF j >= as_usize(symtab["sh_size"]) \div fmt.sym_size THEN Ok(symbols)
    ELSE IF add_usize(as_usize(symtab["sh_offset"]), j * fmt.sym_size).ovf /\ checks
    THEN Panic
    ELSE Then(read_fields(data,
                          add_usize(as_usize(symtab["sh_offset"]), j * fmt.sym_size).val,
                          ElfSymbol(fmt.is_64bit), fmt.little_endian, checks),
              LAMBDA e :
                 IF e.res.tag # "Ok" THEN e.res
                 ELSE IF ~(as_usize(e.res.val["st_name"]) < as_usize(strtab["sh_size"]))
                 THEN elf_symbols_in(data, symtab, strtab, j + 1, symbols, fmt, checks)
                 ELSE Then(name_at(data, as_usize(strtab["sh_offset"]),
                                   as_usize(e.res.val["st_name"]), checks),
                           LAMBDA name :
                              IF name.tag # "Ok" THEN name
                              ELSE elf_symbols_in(
                                       data, symtab, strtab, j + 1,
                                       elf_symbol_named(e.res.val, name.val, symbols),
                                       fmt, checks)))

\* ElfFile::parse_symbols: the loop over the raw sections, from section i on.
RECURSIVE elf_parse_symbols_from(_, _, _, _, _, _)
elf_parse_symbols_from(data, raw_sections, i, symbols, fmt, checks) ==
    IF i > Len(raw_sections) THEN Ok(symbols)
    ELSE IF raw_sections[i]["sh_type"] \notin {SHT_SYMTAB, SHT_DYNSYM}
            \/ i + 1 > Len(raw_sections)
    THEN elf_parse_symbols_from(data, raw_sections, i + 1, symbols, fmt, checks)
    ELSE IF raw_sections[i + 1]["sh_type"] # SHT_STRTAB
    THEN elf_parse_symbols_from(data, raw_sections, i + 1, symbols, fmt, checks)
    ELSE Then(elf_symbols_in(data, raw_sections[i], raw_sections[i + 1], 0, symbols, fmt,
                             checks),
              LAMBDA found :
                 IF found.tag # "Ok" THEN found
                 ELSE elf_parse_symbols_from(data, raw_sections, i + 1, found.val, fmt,
                                             checks))

\* The class and the encoding of e_ident with the symbol entry size.
ElfFormat(is_64bit, little_endian) ==
    [is_64bit |-> is_64bit, little_endian |-> little_endian,
     sym_size |-> IF is_64bit THEN 24 ELSE 16]

ElfFile_parse_symbols(data, raw_sections, is_64bit, little_endian, checks) ==
    elf_parse_symbols_from(data, raw_sections, 1, << >>, ElfFormat(is_64bit, little_endian),
                           checks)

\* Architecture of e_machine (elf.rs:96-102).
elf_architecture(e_machine) ==
    CASE e_machine = EM_386 -> "X86"
      [] e_machine = EM_X86_64 -> "X64"
      [] e_machine = EM_ARM -> "Arm32"
      [] e_machine = EM_AARCH64 -> "Arm64"
      [] OTHER -> "Unknown"

\* The section-header table of the ELF header e (elf.rs:109-120).
elf_section_table(e) ==
    [sh_offset |-> as_usize(e["e_shoff"]), sh_entsize |-> as_usize(e["e_shentsize"]),
     sh_num |-> as_usize(e["e_shnum"]), sh_strndx |-> as_usize(e["e_shstrndx"])]

\* The string table of the section names (elf.rs:157-161).
elf_strtab(raw_sections, sh_strndx) ==
    IF sh_strndx < Len(raw_sections)
    THEN [offset |-> as_usize(raw_sections[sh_strndx + 1]["sh_offset"]),
          size |-> as_usize(raw_sections[sh_strndx + 1]["sh_size"])]
    ELSE [offset |-> 0, size |-> 0]

\* ElfFile::parse from the raw sections on.
elf_parse_sections(data, fmt, e, raw_sections, checks) ==
    Then(elf_sections_from(data, raw_sections, 1,
                           elf_strtab(raw_sections, elf_section_table(e).sh_strndx), << >>,
                           checks),
         LAMBDA sections :
            IF sections.tag # "Ok" THEN sections
            ELSE Then(ElfFile_parse_symbols(data, raw_sections, fmt.is_64bit,
                                            fmt.little_endian, checks),
                      LAMBDA symbols :
                         IF symbols.tag # "Ok" THEN symbols
                         ELSE Ok([format |-> "ELF",
                                  data |-> data,
                                  architecture |-> elf_architecture(e["e_machine"]),
                                  is_64bit |-> fmt.is_64bit,
                                  little_endian |-> fmt.little_endian,
                                  entry_point |-> as_usize(e["e_entry"]),
                                  sections |-> sections.val,
                                  symbols |-> symbols.val])))

\* ElfFile::parse from the header after e_ident on.
elf_parse_header(data, fmt, checks) ==
    Then(read_fields(data, 16, ElfHeader(fmt.is_64bit), fmt.little_endian, checks),
         LAMBDA e :
            IF e.res.tag # "Ok" THEN e.res
            ELSE Then(IF elf_section_table(e.res.val).sh_num > 0
                         /\ elf_section_table(e.res.val).sh_offset > 0
                      THEN elf_raw_sections_from(data, elf_section_table(e.res.val), 0,
                                                 << >>, fmt, checks)
                      ELSE Ok(<< >>),
                      LAMBDA raw_sections :
                         IF raw_sections.tag # "Ok" THEN raw_sections
                         ELSE elf_parse_sections(data, fmt, e.res.val, raw_sections.val,
                                                 checks)))

\* ElfFile::parse
ElfFile_parse(data, checks) ==
    IF Len(data) < 16 THEN truncated(16, Len(data))
    ELSE IF Slice(data, 0, 4) # ELF_MAGIC
    THEN InvalidMagic(Reverse(ELF_MAGIC), Reverse(Slice(data, 0, 4)))
    ELSE IF data[5] \notin {1, 2} THEN invalid_header(<<"Invalid ELF class: ", data[5]>>)
    ELSE IF data[6] \notin {1, 2} THEN invalid_header(<<"Invalid ELF data encoding: ", data[6]>>)
    ELSE elf_parse_header(data, ElfFormat(data[5] = 2, data[6] = 1), checks)

-----------------------------------------------------------------------------
(* Mach-O (crates/binary-parser/src/macho.rs)                                *)

MH_MAGIC == <<254, 237, 250, 206>>
MH_MAGIC_64 == <<254, 237, 250, 207>>
MH_CIGAM == <<206, 250, 237, 254>>
MH_CIGAM_64 == <<207, 250, 237, 254>>
FAT_MAGIC == <<202, 254, 186, 190>>
CPU_TYPE_I386 == <<0, 0, 0, 7>>
CPU_TYPE_X86_64 == <<1, 0, 0, 7>>
CPU_TYPE_ARM == <<0, 0, 0, 12>>
CPU_TYPE_ARM64 == <<1, 0, 0, 12>>
LC_SEGMENT == <<0, 0, 0, 1>>
LC_SYMTAB == <<0, 0, 0, 2>>
LC_SEGMENT_64 == <<0, 0, 0, 25>>
LC_MAIN == <<128, 0, 0, 40>>
\* "__TEXT"
str_TEXT == <<95, 95, 84, 69, 88, 84>>
str_comma == <<44>>

\* The arguments of parse_macho.
MachOArgs(data, base_offset, is_64bit, little_endian) ==
    [data |-> data, base_offset |-> base_offset, is_64bit |-> is_64bit,
     little_endian |-> little_endian]

\* The reader calls of the Mach-O header (macho.rs:115-125).
MachOHeader(is_64bit) ==
    << Rd("_magic", 4), Rd("cputype", 4), Rd("_cpusubtype", 4), Rd("_filetype", 4),
       Rd("ncmds", 4), Rd("_sizeofcmds", 4), Rd("_flags", 4) >>
    \o (IF is_64bit THEN << Rd("_reserved", 4) >> ELSE << >>)

\* The locals of parse_macho before the first load command (macho.rs:135-142).
MachOLocals(architecture) ==
    [architecture |-> architecture, sections |-> << >>, entry_point |-> 0,
     text_base |-> 0, symtab_offset |-> 0, symtab_count |-> 0, strtab_offset |-> 0,
     strtab_size |-> 0]

\* Architecture of cputype (macho.rs:127-133).
macho_architecture(cputype) ==
    CASE cputype = CPU_TYPE_I386 -> "X86"
      [] cputype = CPU_TYPE_X86_64 -> "X64"
      [] cputype = CPU_TYPE_ARM -> "Arm32"
      [] cputype = CPU_TYPE_ARM64 -> "Arm64"
      [] OTHER -> "Unknown"

\* parse_macho up to the load-command loop: the locals, ncmds and the cursor.
macho_header(args, checks) ==
    Then(read_fields(args.data, args.base_offset, MachOHeader(args.is_64bit),
                     args.little_endian, checks),
         LAMBDA h :
            IF h.res.tag # "Ok" THEN [res |-> h.res, offset |-> args.base_offset, ncmds |-> 0]
            ELSE [res |-> Ok(MachOLocals(macho_architecture(h.res.val["cputype"]))),
                  offset |-> h.offset,
                  ncmds |-> as_usize(h.res.val["ncmds"])])

\* The reader calls of a segment command and of one section of it.
MachOSegment(is_64bit) ==
    LET w == IF is_64bit THEN 8 ELSE 4 IN
    << RdBytes("segname", 16), Rd("vmaddr", w), Rd("vmsize", w), Rd("fileoff", w),
       Rd("filesize", w), Rd("maxprot", 4), Rd("initprot", 4), Rd("nsects", 4),
       Rd("_flags", 4) >>
MachOSection(is_64bit) ==
    LET w == IF is_64bit THEN 8 ELSE 4 IN
    << RdBytes("sectname", 16), RdBytes("segname", 16), Rd("addr", w), Rd("size", w),
       Rd("offset", 4), Rd("_align", 4), Rd("_reloff", 4), Rd("_nreloc", 4),
       Rd("_flags", 4), Rd("_reserved1", 4), Rd("_reserved2", 4) >>
    \o (IF is_64bit THEN << Rd("_reserved3", 4) >> ELSE << >>)

\* initprot mapped to the unified flags (macho.rs:221-230).
macho_section_flags(initprot) ==
    (IF HasBit(initprot[4], 1) THEN {"READ"} ELSE {})
    \cup (IF HasBit(initprot[4], 2) THEN {"WRITE"} ELSE {})
    \cup (IF HasBit(initprot[4], 4) THEN {"EXECUTE"} ELSE {})

\* The loop over the sections of a segment, from section i on (macho.rs:187-240).
\* The Section of one section header s of the segment seg (macho.rs:212-239).
macho_section(args, seg, s) ==
    Section(trim_end_nul(seg["segname"]) \o str_comma \o trim_end_nul(s["sectname"]),
            as_usize(s["addr"]), as_usize(s["size"]),
            args.base_offset + as_usize(s["offset"]), as_usize(s["size"]),
            macho_section_flags(seg["initprot"]))

RECURSIVE macho_sections_from(_, _, _, _, _, _, _)
macho_sections_from(args, offset, seg, wide, i, sections, checks) ==
    IF i >= as_usize(seg["nsects"]) THEN RdStep(Ok(sections), offset)
    ELSE Then(read_fields(args.data, offset, MachOSection(wide), args.little_endian, checks),
              LAMBDA s :
                 IF s.res.tag # "Ok" THEN RdStep(s.res, offset)
                 ELSE macho_sections_from(args, s.offset, seg, wide, i + 1,
                                          Append(sections, macho_section(args, seg, s.res.val)),
                                          checks))

\* The reader calls of the commands handled.
MachOMain == << Rd("entryoff", 8), Rd("_stacksize", 8) >>
MachOSymtab ==
    << Rd("symtab_offset", 4), Rd("symtab_count", 4), Rd("strtab_offset", 4),
       Rd("strtab_size", 4) >>

\* The locals after a command whose fields f were read (macho.rs:149-253).
macho_locals_after(cmd, f, sections, locals) ==
    IF cmd \in {LC_SEGMENT, LC_SEGMENT_64}
    THEN [locals EXCEPT !.sections = sections,
                        !.text_base = IF trim_end_nul(f["segname"]) = str_TEXT
                                      THEN as_usize(f["vmaddr"]) ELSE @]
    ELSE IF cmd = LC_MAIN
    THEN [locals EXCEPT !.entry_point = as_usize(f["entryoff"])]
    ELSE IF cmd = LC_SYMTAB
    THEN [locals EXCEPT !.symtab_offset = as_usize(f["symtab_offset"]),
                        !.symtab_count = as_usize(f["symtab_count"]),
                        !.strtab_offset = as_usize(f["strtab_offset"]),
                        !.strtab_size = as_usize(f["strtab_size"])]
    ELSE locals

\* The match on cmd (macho.rs:149-253): the locals after the handler and the
\* cursor where the handler left it, or the error of a read.
macho_handle_command(args, offset, cmd, locals, checks) ==
    Then(read_fields(args.data, offset,
                     CASE cmd = LC_SEGMENT -> MachOSegment(FALSE)
                       [] cmd = LC_SEGMENT_64 -> MachOSegment(TRUE)
                       [] cmd = LC_MAIN -> MachOMain
                       [] cmd = LC_SYMTAB -> MachOSymtab
                       [] OTHER -> << >>,
                     args.little_endian, checks),
         LAMBDA f :
            IF f.res.tag # "Ok" THEN RdStep(f.res, offset)
            ELSE IF cmd \notin {LC_SEGMENT, LC_SEGMENT_64}
            THEN RdStep(Ok(macho_locals_after(cmd, f.res.val, locals.sections, locals)),
                        f.offset)
            ELSE Then(macho_sections_from(args, f.offset, f.res.val, cmd = LC_SEGMENT_64, 0,
                                          locals.sections, checks),
                      LAMBDA sects :
                         IF sects.res.tag # "Ok" THEN RdStep(sects.res, offset)
                         ELSE RdStep(Ok(macho_locals_after(cmd, f.res.val, sects.res.val,
                                                           locals)),
                                     sects.offset)))

\* The position a handler that stops where its reads end would leave.
next_command_after_handler(cmd_start, cmdsize, handler_end) == handler_end

\* reader.set_offset(cmd_start + cmdsize as usize) (macho.rs:255).  cmdsize is
\* a u32 and cmd_start lies at most a u32 behind the file, so the sum fits the
\* 64-bit word.
next_command(cmd_start, cmdsize, handler_end) == cmd_start + cmdsize

\* One iteration of the load-command loop (macho.rs:145-256): the locals and
\* the cursor after it and the command it handled.
load_command(args, offset, locals, checks) ==
    Then(read_fields(args.data, offset, << Rd("cmd", 4), Rd("cmdsize", 4) >>,
                     args.little_endian, checks),
         LAMBDA c :
            IF c.res.tag # "Ok" THEN [res |-> c.res, offset |-> offset, cmd |-> None]
            ELSE Then(macho_handle_command(args, c.offset, c.res.val["cmd"], locals, checks),
                      LAMBDA h :
                         [res |-> h.res,
                          offset |-> IF h.res.tag # "Ok" THEN offset
                                     ELSE next_command(offset, as_usize(c.res.val["cmdsize"]),
                                                       h.offset),
                          cmd |-> Some([cmd_start |-> offset, cmd |-> c.res.val["cmd"],
                                        cmdsize |-> as_usize(c.res.val["cmdsize"])])]))

\* SymbolType of n_type (macho.rs:333-339).
macho_symbol_type(n_type) ==
    LET bits == (n_type \div 2) % 8 IN
    IF bits = 7 THEN "Function" ELSE IF bits = 1 THEN "Object" ELSE "Unknown"

MachOSymbol(is_64bit) ==
    << Rd("n_strx", 4), Rd("n_type", 1), Rd("_n_sect", 1), Rd("_n_desc", 2),
       Rd("n_value", IF is_64bit THEN 8 ELSE 4) >>

\* MachOFile::parse_symbols: the loop over the symbol entries, from entry i on.
\* One symbol entry e with its name read: the symbols after it.
macho_symbol_named(e, name, symbols) ==
    IF name = << >> THEN symbols
    ELSE Append(symbols, Symbol(name, as_usize(e["n_value"]), None,
                                macho_symbol_type(e["n_type"][1])))

RECURSIVE macho_symbols_from(_, _, _, _, _)
macho_symbols_from(args, tab, i, symbols, checks) ==
    IF \/ i >= tab.symtab_count
       \/ tab.symtab_offset + i * tab.sym_size + tab.sym_size > Len(args.data)
    THEN Ok(symbols)
    ELSE Then(read_fields(args.data, tab.symtab_offset + i * tab.sym_size,
                          MachOSymbol(args.is_64bit), args.little_endian, checks),
              LAMBDA e :
                 IF e.res.tag # "Ok" THEN e.res
                 ELSE IF as_usize(e.res.val["n_strx"]) >= tab.strtab_size
                 THEN macho_symbols_from(args, tab, i + 1, symbols, checks)
                 ELSE Then(name_at(args.data, tab.strtab_offset,
                                   as_usize(e.res.val["n_strx"]), FALSE),
                           LAMBDA name :
                              IF name.tag # "Ok" THEN name
                              ELSE macho_symbols_from(
                                       args, tab, i + 1,
                                       macho_symbol_named(e.res.val, name.val, symbols),
                                       checks)))

MachOFile_parse_symbols(args, symtab_offset, symtab_count, strtab_offset, strtab_size, checks) ==
    macho_symbols_from(args,
                       [symtab_offset |-> symtab_offset, symtab_count |-> symtab_count,
                        strtab_offset |-> strtab_offset, strtab_size |-> strtab_size,
                        sym_size |-> IF args.is_64bit THEN 16 ELSE 12],
                       0, << >>, checks)

\* parse_macho after the load-command loop (macho.rs:258-281): the entry point
\* made absolute, the symbols and the parsed file.
macho_finish(args, locals, checks) ==
    IF /\ locals.entry_point > 0 /\ locals.text_base > 0
       /\ add_usize(locals.text_base, locals.entry_point).ovf /\ checks
    THEN Panic
    ELSE Then(IF locals.symtab_count > 0 /\ locals.symtab_offset > 0
                 /\ locals.strtab_size > 0
              THEN MachOFile_parse_symbols(
                       args, args.base_offset + locals.symtab_offset, locals.symtab_count,
                       args.base_offset + locals.strtab_offset, locals.strtab_size, checks)
              ELSE Ok(<< >>),
              LAMBDA symbols :
                 IF symbols.tag # "Ok" THEN symbols
                 ELSE Ok([format |-> "MachO",
                          data |-> args.data,
                          architecture |-> locals.architecture,
                          is_64bit |-> args.is_64bit,
                          little_endian |-> args.little_endian,
                          entry_point |->
                              IF locals.entry_point > 0 /\ locals.text_base > 0
                              THEN add_usize(locals.text_base, locals.entry_point).val
                              ELSE locals.entry_point,
                          sections |-> locals.sections,
                          symbols |-> symbols.val,
                          text_base |-> locals.text_base]))

\* The load-command loop `for _ in 0..ncmds`, from iteration `handled` on.
RECURSIVE macho_commands_from(_, _, _, _, _, _)
macho_commands_from(args, offset, ncmds, handled, locals, checks) ==
    IF handled >= ncmds THEN Ok(locals)
    ELSE Then(load_command(args, offset, locals, checks),
              LAMBDA step :
                 IF step.res.tag # "Ok" THEN step.res
                 ELSE macho_commands_from(args, step.offset, ncmds, handled + 1,
                                          step.res.val, checks))

\* parse_macho on its arguments as one value.
parse_macho_args(args, checks) ==
    Then(macho_header(args, checks),
         LAMBDA h :
            IF h.res.tag # "Ok" THEN h.res
            ELSE Then(macho_commands_from(args, h.offset, h.ncmds, 0, h.res.val, checks),
                      LAMBDA locals :
                         IF locals.tag # "Ok" THEN locals
                         ELSE macho_finish(args, locals.val, checks)))

\* MachOFile::parse_macho
parse_macho(data, base_offset, is_64bit, little_endian, checks) ==
    parse_macho_args(MachOArgs(data, base_offset, is_64bit, little_endian), checks)

\* The reader calls of one fat_arch entry (macho.rs:81-85).
FatArch ==
    << Rd("cputype", 4), Rd("_cpusubtype", 4), Rd("offset", 4), Rd("_size", 4),
       Rd("_align", 4) >>

\* The loop over the architecture table of parse_fat_binary, from entry i on:
\* the best slice found (or None), or the error of a read.
\* A choice that keeps the first supported entry listed, whatever its width.
fat_best_first_listed(a, best) ==
    IF best # None THEN best
    ELSE IF a["cputype"] \in {CPU_TYPE_X86_64, CPU_TYPE_ARM64}
    THEN Some([offset |-> as_usize(a["offset"]), is_64 |-> TRUE])
    ELSE IF a["cputype"] \in {CPU_TYPE_I386, CPU_TYPE_ARM}
    THEN Some([offset |-> as_usize(a["offset"]), is_64 |-> FALSE])
    ELSE best

\* best_offset / best_is_64 after one entry a (macho.rs:87-99).
fat_best_after(a, best) ==
    IF a["cputype"] \in {CPU_TYPE_X86_64, CPU_TYPE_ARM64}
    THEN Some([offset |-> as_usize(a["offset"]), is_64 |-> TRUE])
    ELSE IF a["cputype"] \in {CPU_TYPE_I386, CPU_TYPE_ARM} /\ best = None
    THEN Some([offset |-> as_usize(a["offset"]), is_64 |-> FALSE])
    ELSE best

RECURSIVE fat_best_from(_, _, _, _, _, _)
fat_best_from(data, offset, nfat_arch, i, best, checks) ==
    IF i >= nfat_arch THEN Ok(best)
    ELSE Then(read_fields(data, offset, FatArch, FALSE, checks),
              LAMBDA a :
                 IF a.res.tag # "Ok" THEN a.res
                 ELSE IF a.res.val["cputype"] \in {CPU_TYPE_X86_64, CPU_TYPE_ARM64}
                 THEN Ok(fat_best_after(a.res.val, best))
                 ELSE fat_best_from(data, a.offset, nfat_arch, i + 1,
                                    fat_best_after(a.res.val, best), checks))

\* The slice chosen by parse_fat_binary as the arguments of parse_macho, or the
\* error (or panic) the choice ends in.
fat_slice(data, checks) ==
    Then(read_fields(data, 0, << Rd("_magic", 4), Rd("nfat_arch", 4) >>, FALSE, checks),
         LAMBDA h :
            IF h.res.tag # "Ok" THEN h.res
            ELSE Then(fat_best_from(data, h.offset, as_usize(h.res.val["nfat_arch"]), 0, None,
                                    checks),
                      LAMBDA best :
                         IF best.tag # "Ok" THEN best
                         ELSE IF best.val = None
                         THEN invalid_header("No supported architecture in FAT binary")
                         ELSE IF ~InRange(data, best.val.val.offset + 3) THEN Panic
                         ELSE Ok(MachOArgs(
                                     data, best.val.val.offset, best.val.val.is_64,
                                     Reverse(Slice(data, best.val.val.offset,
                                                   best.val.val.offset + 4))
                                         \in {MH_MAGIC, MH_MAGIC_64}))))

\* MachOFile::parse_fat_binary
parse_fat_binary(data, checks) ==
    Then(fat_slice(data, checks),
         LAMBDA slice : IF slice.tag # "Ok" THEN slice
                        ELSE parse_macho_args(slice.val, checks))

\* The call MachOFile::parse makes for a magic: parse_macho with its
\* arguments, the fat parser, or no call.
macho_dispatch(data, magic) ==
    CASE magic = MH_MAGIC -> Some(MachOArgs(data, 0, FALSE, TRUE))
      [] magic = MH_MAGIC_64 -> Some(MachOArgs(data, 0, TRUE, TRUE))
      [] magic = MH_CIGAM -> Some(MachOArgs(data, 0, FALSE, FALSE))
      [] magic = MH_CIGAM_64 -> Some(MachOArgs(data, 0, TRUE, FALSE))
      [] magic = FAT_MAGIC -> [tag |-> "Fat"]
      [] OTHER -> None

\* MachOFile::parse
MachOFile_parse(data, checks) ==
    IF Len(data) < 4 THEN truncated(4, Len(data))
    ELSE Then(macho_dispatch(data, Reverse(Slice(data, 0, 4))),
              LAMBDA call :
                 CASE call.tag = "None" -> InvalidMagic(MH_MAGIC_64, Reverse(Slice(data, 0, 4)))
                   [] call.tag = "Fat" -> parse_fat_binary(data, checks)
                   [] OTHER -> parse_macho_args(call.val, checks))

-----------------------------------------------------------------------------
(* Image files handed to the parsers                                         *)

\* The n-byte field holding the value v (below 65536), most significant byte
\* first, and as the file holds it in either byte order.
word(v, n) ==
    [i \in 1 .. n |-> IF i = n THEN v % 256 ELSE IF i = n - 1 THEN v \div 256 ELSE 0]
field(v, n, little_endian) == IF little_endian THEN Reverse(word(v, n)) ELSE word(v, n)
\* A field given by its bytes, most significant first.
raw_field(bytes, little_endian) == IF little_endian THEN Reverse(bytes) ELSE bytes
zeros(n) == [i \in 1 .. n |-> 0]
\* u64::MAX - 15, most significant byte first.
NearMaxU64 == <<255, 255, 255, 255, 255, 255, 255, 240>>
\* The bytes of a name in a field of n bytes.
name_field(name, n) == name \o zeros(n - Len(name))
\* The first n bytes of a file.
cut(bytes, n) == SubSeq(bytes, 1, Min(n, Len(bytes)))
RECURSIVE concat(_)
concat(seqs) == IF seqs = << >> THEN << >> ELSE Head(seqs) \o concat(Tail(seqs))

\* "__DATA", "__text", LC_UUID
str_DATA == <<95, 95, 68, 65, 84, 65>>
str_text == <<95, 95, 116, 101, 120, 116>>
LC_UUID == <<0, 0, 0, 27>>

\* The shape of an image: its width and its byte order.
Shape(is_64bit, little_endian) == [is_64bit |-> is_64bit, little_endian |-> little_endian]

\* A segment command with nsects sections, declaring its true size.
SegmentCommand(segname, vmaddr, nsects, sh) ==
    LET w == IF sh.is_64bit THEN 8 ELSE 4
        le == sh.little_endian
        section == name_field(str_text, 16) \o name_field(segname, 16)
                   \o field(vmaddr, w, le) \o field(16, w, le) \o field(0, 4, le)
                   \o zeros(IF sh.is_64bit THEN 28 ELSE 24)
        size == 8 + 16 + 4 * w + 16 + nsects * Len(section)
    IN  raw_field(IF sh.is_64bit THEN LC_SEGMENT_64 ELSE LC_SEGMENT, le)
        \o field(size, 4, le) \o name_field(segname, 16)
        \o field(vmaddr, w, le) \o field(256, w, le) \o field(0, w, le) \o field(0, w, le)
        \o field(7, 4, le) \o field(5, 4, le) \o field(nsects, 4, le) \o field(0, 4, le)
        \o concat([k \in 1 .. nsects |-> section])
\* A main command with the entry offset given by its bytes, declaring cmdsize.
MainCommand(entryoff, cmdsize, sh) ==
    raw_field(LC_MAIN, sh.little_endian) \o field(cmdsize, 4, sh.little_endian)
    \o raw_field(entryoff, sh.little_endian) \o zeros(8)
\* A symbol-table command.
SymtabCommand(symoff, nsyms, stroff, strsize, sh) ==
    raw_field(LC_SYMTAB, sh.little_endian) \o field(24, 4, sh.little_endian)
    \o field(symoff, 4, sh.little_endian) \o field(nsyms, 4, sh.little_endian)
    \o field(stroff, 4, sh.little_endian) \o field(strsize, 4, sh.little_endian)
\* A command the walk does not know, of 16 bytes, declaring cmdsize.
OtherCommand(cmdsize, sh) ==
    raw_field(LC_UUID, sh.little_endian) \o field(cmdsize, 4, sh.little_endian) \o zeros(8)

\* A thin image of a CPU type: the header declaring ncmds commands, then the
\* commands, then the bytes that follow them.
ThinImageOf(cputype, sh, ncmds, commands, rest) ==
    LET le == sh.little_endian IN
    Reverse(CASE sh.is_64bit /\ le -> MH_MAGIC_64
              [] sh.is_64bit /\ ~le -> MH_CIGAM_64
              [] ~sh.is_64bit /\ le -> MH_MAGIC
              [] OTHER -> MH_CIGAM)
    \o raw_field(cputype, le)
    \o field(0, 4, le) \o field(2, 4, le) \o field(ncmds, 4, le)
    \o field(Len(concat(commands)), 4, le) \o field(0, 4, le)
    \o (IF sh.is_64bit THEN zeros(4) ELSE << >>)
    \o concat(commands) \o rest
ThinImage(sh, ncmds, commands, rest) ==
    ThinImageOf(IF sh.is_64bit THEN CPU_TYPE_ARM64 ELSE CPU_TYPE_ARM, sh, ncmds, commands,
                rest)

\* The commands an image is made of: a __TEXT segment with one section, a
\* command the walk does not know declaring no size or more than its own, and
\* main commands with the entry offset zero or not, declaring their size or none.
WalkCommands(sh) ==
    { SegmentCommand(str_TEXT, 4096, 1, sh), OtherCommand(0, sh), OtherCommand(24, sh),
      MainCommand(word(0, 8), 24, sh), MainCommand(word(64, 8), 24, sh),
      MainCommand(word(64, 8), 0, sh) }

\* Most commands in an image.
MaxCommands == 3

\* The thin images walked: every sequence of up to MaxCommands commands in
\* both widths, declared with their count or with one command more.
WalkImages ==
    UNION { UNION { { ThinImage(sh, n + extra, commands, << >>) :
                        commands \in [1 .. n -> WalkCommands(sh)], extra \in {0, 1} } :
                    n \in 0 .. MaxCommands } :
            sh \in { Shape(TRUE, TRUE), Shape(FALSE, FALSE) } }

\* A CPU type parse_fat_binary does not support (PowerPC).
CPU_TYPE_POWERPC == <<0, 0, 0, 18>>

\* The slices of a fat image, one per CPU type, each a thin image with one
\* main command: where each starts in the file.
FatSlices ==
    << [cputype |-> CPU_TYPE_I386, sh |-> Shape(FALSE, TRUE)],
       [cputype |-> CPU_TYPE_X86_64, sh |-> Shape(TRUE, TRUE)],
       [cputype |-> CPU_TYPE_ARM, sh |-> Shape(FALSE, FALSE)],
       [cputype |-> CPU_TYPE_ARM64, sh |-> Shape(TRUE, FALSE)] >>
SliceImage(k) ==
    ThinImageOf(FatSlices[k].cputype, FatSlices[k].sh, 1,
                << MainCommand(word(64, 8), 24, FatSlices[k].sh) >>, << >>)
\* Most entries in an architecture table, and where the first slice starts.
MaxFatArchs == 3
FatSlicesStart == 8 + 20 * (MaxFatArchs + 1)
SliceOffset(k) == FatSlicesStart + Len(concat([j \in 1 .. k - 1 |-> SliceImage(j)]))
FatLength == SliceOffset(Len(FatSlices) + 1)

\* The kinds of entry of an architecture table: the four slices, an
\* unsupported CPU type, and a 64-bit entry whose offset lies behind the file.
\* (kinds 1 to 4 are the slices, 5 is the unsupported type, 6 the entry behind
\* the file.)
FatEntryKinds == 1 .. Len(FatSlices) + 2
FatEntry(kind) ==
    LET cputype == CASE kind = Len(FatSlices) + 1 -> CPU_TYPE_POWERPC
                     [] kind = Len(FatSlices) + 2 -> CPU_TYPE_X86_64
                     [] OTHER -> FatSlices[kind].cputype
        offset == CASE kind = Len(FatSlices) + 1 -> SliceOffset(1)
                    [] kind = Len(FatSlices) + 2 -> FatLength + 16
                    [] OTHER -> SliceOffset(kind)
    IN  cputype \o word(0, 4) \o word(offset, 4) \o word(64, 4) \o word(0, 4)

\* A fat image: the magic, the table (big-endian) and the four slices.
FatImage(kinds) ==
    LET head == Reverse(FAT_MAGIC) \o word(Len(kinds), 4)
                \o concat([k \in 1 .. Len(kinds) |-> FatEntry(kinds[k])])
    IN  head \o zeros(FatSlicesStart - Len(head))
        \o concat([k \in 1 .. Len(FatSlices) |-> SliceImage(k)])
FatImages ==
    UNION { { FatImage(kinds) : kinds \in [1 .. n -> FatEntryKinds] } : n \in 0 .. MaxFatArchs }

\* "\0main\0": the string table of the Mach-O images.
MachOStrings == <<0, 109, 97, 105, 110, 0>>

\* A thin image with a symbol table: two entries behind the commands, the
\* second named at n_strx, then the string table, declared at stroff or where
\* it is.
SymbolImage(sh, n_strx, stroff) ==
    LET le == sh.little_endian
        entry(strx) == field(strx, 4, le) \o <<15, 1, 0, 0>>
                       \o field(4096, IF sh.is_64bit THEN 8 ELSE 4, le)
        commands(symoff, at) == << SegmentCommand(str_TEXT, 4096, 1, sh),
                                   SymtabCommand(symoff, 2, at, Len(MachOStrings), sh) >>
        symoff == Len(ThinImage(sh, 2, commands(0, 0), << >>))
    IN  ThinImage(sh, 2,
                  commands(symoff, IF stroff = 0 THEN symoff + 2 * Len(entry(0)) ELSE stroff),
                  entry(1) \o entry(n_strx) \o MachOStrings)

\* The images with symbols: both shapes, the second name inside the string
\* table, empty or outside it, the string table in or behind the file, the
\* file whole or cut inside the second entry.
SymbolImages ==
    { cut(SymbolImage(sh, n_strx, stroff), Len(SymbolImage(sh, n_strx, stroff)) - less) :
        sh \in { Shape(TRUE, TRUE), Shape(FALSE, FALSE) },
        n_strx \in {0, 1, 200}, stroff \in {0, 4000}, less \in {0, 10} }

-----------------------------------------------------------------------------
(* PE and ELF files handed to the parsers                                    *)

\* ".text"
str_dot_text == <<46, 116, 101, 120, 116>>

\* One section header of a PE file, section k.
PeSectionBytes(k) ==
    name_field(str_dot_text, 8) \o field(256, 4, TRUE) \o field(4096 * k, 4, TRUE)
    \o field(256, 4, TRUE) \o field(512 * k, 4, TRUE) \o zeros(12)
    \o raw_field(<<96, 0, 0, 32>>, TRUE)

\* A PE file: the DOS header with e_lfanew = 64, the signature, the COFF
\* header declaring `declared` sections, the optional header up to image_base,
\* and `present` section headers.
PeImage(is_64bit, sig, optional_magic, image_base, declared, present) ==
    <<77, 90>> \o zeros(58) \o field(64, 4, TRUE)
    \o raw_field(sig, TRUE)
    \o raw_field(IF is_64bit THEN IMAGE_FILE_MACHINE_AMD64 ELSE IMAGE_FILE_MACHINE_I386, TRUE)
    \o field(declared, 2, TRUE) \o zeros(12) \o field(32, 2, TRUE) \o zeros(2)
    \o raw_field(optional_magic, TRUE) \o zeros(14) \o field(4112, 4, TRUE) \o zeros(4)
    \o (IF is_64bit THEN << >> ELSE zeros(4))
    \o raw_field(image_base, TRUE)
    \o concat([k \in 1 .. present |-> PeSectionBytes(k)])

\* Most sections in a PE file.
MaxPeSections == 2

\* The PE files: both widths, the image base low or at the top of the address
\* space, every count of sections, whole or cut inside the last section header
\* or inside the optional header; and files with a wrong signature or magic.
PeImages ==
    UNION { UNION { { cut(PeImage(is_64bit, PE_SIGNATURE,
                                  IF is_64bit THEN PE32PLUS_MAGIC ELSE PE32_MAGIC,
                                  IF is_64bit THEN base ELSE SubSeq(base, 5, 8), n, n),
                          120 + 40 * n - less) :
                        less \in {0, 10, 40 * n + 20},
                        base \in { word(4096, 8), NearMaxU64 } } :
                    n \in 0 .. MaxPeSections } :
            is_64bit \in BOOLEAN }
    \cup { PeImage(TRUE, <<0, 0, 69, 81>>, PE32PLUS_MAGIC, word(4096, 8), 1, 1),
           PeImage(TRUE, PE_SIGNATURE, <<3, 11>>, word(4096, 8), 1, 1),
           <<77, 90, 0, 0>> }

\* "\0main\0.text\0": the string table of the ELF files.
ElfStrings == <<0, 109, 97, 105, 110, 0, 46, 116, 101, 120, 116, 0>>

\* An ELF file: e_ident, the header, the string table, three section headers
\* (.text, the symbol table, the string table, which also names the sections)
\* where e_shoff says (or, for the empty e_shoff, where they are), and two
\* symbols, the second named at st_name.
ElfImage(fmt, e_shoff, strtab_offset, st_name) ==
    LET le == fmt.little_endian
        w == IF fmt.is_64bit THEN 8 ELSE 4
        header_size == IF fmt.is_64bit THEN 64 ELSE 52
        sh_entsize == 8 + 4 * w
        symtab_offset == header_size + Len(ElfStrings) + 3 * sh_entsize
        section(name, type, flags, addr, offset, size) ==
            field(name, 4, le) \o field(type, 4, le) \o field(flags, w, le)
            \o field(addr, w, le) \o field(offset, w, le) \o field(size, w, le)
        symbol(name) ==
            IF fmt.is_64bit
            THEN field(name, 4, le) \o <<18, 0, 0, 0>> \o field(4096, 8, le) \o field(16, 8, le)
            ELSE field(name, 4, le) \o field(4096, 4, le) \o field(16, 4, le) \o <<18, 0, 0, 0>>
    IN  ELF_MAGIC \o << IF fmt.is_64bit THEN 2 ELSE 1, IF le THEN 1 ELSE 2, 1 >> \o zeros(9)
        \o field(2, 2, le) \o raw_field(IF fmt.is_64bit THEN EM_X86_64 ELSE EM_386, le)
        \o field(1, 4, le) \o field(4096, w, le) \o field(0, w, le)
        \o (IF e_shoff = << >> THEN field(header_size + Len(ElfStrings), w, le)
            ELSE raw_field(e_shoff, le))
        \o field(0, 4, le) \o field(header_size, 2, le) \o field(0, 2, le) \o field(0, 2, le)
        \o field(sh_entsize, 2, le) \o field(3, 2, le) \o field(2, 2, le)
        \o ElfStrings
        \o section(6, 1, 6, 4096, header_size, Len(ElfStrings))
        \o section(0, 2, 0, 0, symtab_offset, 2 * fmt.sym_size)
        \o section(0, 3, 0, 0, strtab_offset, Len(ElfStrings))
        \o symbol(1) \o symbol(st_name)

\* The ELF files: both classes and byte orders, the section table where the
\* header says or at the top of the address space, the string table inside or
\* behind the file, the second symbol named inside or outside the string
\* table, the file whole, cut inside the last symbol or inside the last
\* section header.
ElfImages ==
    UNION { UNION { { cut(ElfImage(fmt, e_shoff, strtab_offset, st_name),
                          Len(ElfImage(fmt, e_shoff, strtab_offset, st_name)) - less) :
                        e_shoff \in {<< >>}
                                    \cup (IF fmt.is_64bit THEN {NearMaxU64} ELSE {}),
                        strtab_offset \in { IF fmt.is_64bit THEN 64 ELSE 52, 4000 },
                        st_name \in {6, 200},
                        less \in {0, 5, 2 * fmt.sym_size + 10} } :
                    fmt \in { ElfFormat(is_64bit, le) : le \in BOOLEAN } } :
            is_64bit \in BOOLEAN }
    \cup { ELF_MAGIC \o <<2, 1, 1>>, ELF_MAGIC \o <<3, 1, 1>> \o zeros(60),
           <<127, 69, 76, 71>> \o zeros(60) }

\* The files handed to the parsers.
ParseInputs == PeImages \cup ElfImages \cup FatImages \cup SymbolImages

BfPeParse == BfApply([op |-> "PeFile::parse"], PeFile_parse(bf_data, overflow_checks))
BfElfParse == BfApply([op |-> "ElfFile::parse"], ElfFile_parse(bf_data, overflow_checks))
BfMachOParse == BfApply([op |-> "MachOFile::parse"], MachOFile_parse(bf_data, overflow_checks))

InitParse ==
    /\ overflow_checks \in BOOLEAN
    /\ bf_data \in ParseInputs
    /\ bf_sections = << >> /\ bf_symbols = << >> /\ bf_architecture = "Unknown"
    /\ bf_call = [op |-> "new"]
    /\ bf_result = None
    /\ rdIdle /\ mdIdle /\ dmIdle /\ moIdle /\ pcIdle

NextParse == BfPeParse \/ BfElfParse \/ BfMachOParse

SpecParse == InitParse /\ [][NextParse]_vars

-----------------------------------------------------------------------------
(* Format detection (crates/binary-parser/src/lib.rs)                       *)

\* b"MZ" and b"\x7FELF"
magic_MZ == <<77, 90>>
magic_ELF == <<127, 69, 76, 70>>
\* The bytes u32::from_le_bytes reads 0xFEEDFACE, 0xFEEDFACF, 0xCAFEBABE and
\* 0xBEBAFECA from.
MachOMagics ==
    { <<206, 250, 237, 254>>, <<207, 250, 237, 254>>,
      <<190, 186, 254, 202>>, <<202, 254, 186, 190>> }

\* ParseError::UnknownFormat
UnknownFormat == [tag |-> "Err", err |-> "UnknownFormat"]

\* detect_format
detect_format(data) ==
    IF Len(data) < 4 THEN None
    ELSE IF Len(data) >= 2 /\ Slice(data, 0, 2) = magic_MZ THEN Some("PE")
    ELSE IF Len(data) >= 4 /\ Slice(data, 0, 4) = magic_ELF THEN Some("ELF")
    ELSE IF Len(data) >= 4 /\ Slice(data, 0, 4) \in MachOMagics THEN Some("MachO")
    ELSE None

\* parse_binary: the unknown-format error, or the result of the parser of the
\* detected format on the same data.
parse_binary(data, checks) ==
    LET format == detect_format(data) IN
    IF format.tag = "None" THEN UnknownFormat
    ELSE CASE format.val = "PE" -> PeFile_parse(data, checks)
           [] format.val = "ELF" -> ElfFile_parse(data, checks)
           [] format.val = "MachO" -> MachOFile_parse(data, checks)

\* Longest input handed to detection.
MaxDetectLen == 6

\* The leading bytes tried: each magic, a magic with its last byte changed,
\* and bytes that are no magic.
DetectHeads ==
    { magic_MZ, magic_ELF, <<77, 91>>, <<127, 69, 76, 71>>, <<0, 0, 0, 0>>,
      <<206, 250, 237, 255>>, <<254, 237, 250, 206>> } \cup MachOMagics
\* The inputs: a head, cut or followed by bytes of one value, of every length.
DetectInputs ==
    { [i \in 1 .. len |-> IF i <= Len(head) THEN head[i] ELSE fill] :
        head \in DetectHeads, len \in 0 .. MaxDetectLen, fill \in {0, 90, 255} }

BfDetectFormat == BfApply([op |-> "detect_format"], detect_format(bf_data))
BfParseBinary == BfApply([op |-> "parse_binary"], parse_binary(bf_data, overflow_checks))

InitDetect ==
    /\ overflow_checks \in BOOLEAN
    /\ bf_data \in DetectInputs
    /\ bf_sections = << >> /\ bf_symbols = << >> /\ bf_architecture = "Unknown"
    /\ bf_call = [op |-> "new"]
    /\ bf_result = None
    /\ rdIdle /\ mdIdle /\ dmIdle /\ moIdle /\ pcIdle

NextDetect == BfDetectFormat \/ BfParseBinary

SpecDetect == InitDetect /\ [][NextDetect]_vars

\* The format the leading magic of the input names, if any.
LeadingMagic ==
    IF Len(bf_data) >= 2 /\ SubSeq(bf_data, 1, 2) = <<77, 90>> THEN Some("PE")
    ELSE IF Len(bf_data) >= 4 /\ SubSeq(bf_data, 1, 4) = <<127, 69, 76, 70>> THEN Some("ELF")
    ELSE IF Len(bf_data) >= 4
            /\ SubSeq(bf_data, 1, 4) \in { <<206, 250, 237, 254>>, <<207, 250, 237, 254>>,
                                          <<190, 186, 254, 202>>, <<202, 254, 186, 190>> }
    THEN Some("MachO")
    ELSE None

\* C18: detect_format returns the format the leading magic names whatever the
\* length of the input and whatever follows the magic, and parse_binary returns
\* the unknown-format error exactly for the inputs with no leading magic.
C18_DetectionByLeadingMagic ==
    /\ bf_call.op = "detect_format" => bf_result = LeadingMagic
    /\ bf_call.op = "parse_binary"
           => (bf_result = [tag |-> "Err", err |-> "UnknownFormat"]
                   <=> LeadingMagic = [tag |-> "None"])


-----------------------------------------------------------------------------
(* Pattern search (crates/binary-parser/src/common.rs)                      *)

\* The windows loop of search_pattern over one section's data, from window
\* `offset` on: the addresses of the windows equal to the pattern, in order.
RECURSIVE pattern_windows(_, _, _, _, _, _)
pattern_windows(data, section, pattern, offset, results, checks) ==
    IF offset + Len(pattern) > Len(data) THEN Some(results)
    ELSE IF Slice(data, offset, offset + Len(pattern)) = pattern
    THEN LET va == address_offset(section.virtual_address, offset, checks) IN
         IF va.tag = "Panic" THEN Panic
         ELSE pattern_windows(data, section, pattern, offset + 1,
                              Append(results, va.val), checks)
    ELSE pattern_windows(data, section, pattern, offset + 1, results, checks)

\* The loop of search_pattern over the executable sections from the k-th on;
\* slice::windows(0) panics.
RECURSIVE search_pattern_from(_, _, _, _, _, _, _)
search_pattern_from(data, sections, order, k, pattern, results, checks) ==
    IF k > Len(order) THEN Some(results)
    ELSE LET section == sections[order[k]]
             bytes == section_data(data, section, checks)
         IN  IF bytes.tag = "Panic" THEN Panic
             ELSE IF bytes.tag = "None"
             THEN search_pattern_from(data, sections, order, k + 1, pattern, results, checks)
             ELSE IF Len(pattern) = 0 THEN Panic
             ELSE LET found == pattern_windows(bytes.val, section, pattern, 0, results,
                                               checks)
                  IN  IF found.tag = "Panic" THEN Panic
                      ELSE search_pattern_from(data, sections, order, k + 1, pattern,
                                               found.val, checks)

\* BinaryFile::search_pattern
search_pattern(data, sections, pattern, checks) ==
    search_pattern_from(data, sections, executable_sections(sections), 1, pattern,
                        << >>, checks)


\* The mask test with the roles of zero and non-zero mask bytes exchanged.
masked_match_zero_compares(window, pattern, mask) ==
    \A i \in 1 .. Len(window) : ~(mask[i] = 0 /\ window[i] # pattern[i])

\* The test of the inner loop of search_pattern_masked: no position with a
\* non-zero mask byte where the window differs from the pattern.
masked_match(window, pattern, mask) ==
    \A i \in 1 .. Len(window) : ~(mask[i] # 0 /\ window[i] # pattern[i])

\* The windows loop of search_pattern_masked over one section's data.
RECURSIVE masked_windows(_, _, _, _, _, _)
masked_windows(data, section, pm, offset, results, checks) ==
    IF offset + Len(pm.pattern) > Len(data) THEN Some(results)
    ELSE IF masked_match(Slice(data, offset, offset + Len(pm.pattern)), pm.pattern, pm.mask)
    THEN LET va == address_offset(section.virtual_address, offset, checks) IN
         IF va.tag = "Panic" THEN Panic
         ELSE masked_windows(data, section, pm, offset + 1, Append(results, va.val), checks)
    ELSE masked_windows(data, section, pm, offset + 1, results, checks)

\* The loop of search_pattern_masked over the executable sections.
RECURSIVE search_pattern_masked_from(_, _, _, _, _, _, _)
search_pattern_masked_from(data, sections, order, k, pm, results, checks) ==
    IF k > Len(order) THEN Some(results)
    ELSE LET section == sections[order[k]]
             bytes == section_data(data, section, checks)
         IN  IF bytes.tag = "Panic" THEN Panic
             ELSE IF bytes.tag = "None"
             THEN search_pattern_masked_from(data, sections, order, k + 1, pm, results,
                                             checks)
             ELSE IF Len(pm.pattern) = 0 THEN Panic
             ELSE LET found == masked_windows(bytes.val, section, pm, 0, results, checks)
                  IN  IF found.tag = "Panic" THEN Panic
                      ELSE search_pattern_masked_from(data, sections, order, k + 1, pm,
                                                      found.val, checks)

\* BinaryFile::search_pattern_masked: assert_eq!(pattern.len(), mask.len()).
search_pattern_masked(data, sections, pattern, mask, checks) ==
    IF Len(pattern) # Len(mask) THEN Panic
    ELSE search_pattern_masked_from(data, sections, executable_sections(sections), 1,
                                    [pattern |-> pattern, mask |-> mask], << >>, checks)

\* Payloads of the searched sections.
PatternPayloads == { <<170, 187, 170>>, <<170, 170, 170>>, <<144, 0, 144, 1>> }
\* A binary of the pattern checks: the payload three times, as an executable
\* section, a readable data section and a second executable section.
PatternBinary(payload, xraw, xva) ==
    LET n == Len(payload)
        file == payload \o payload \o payload
    IN  [data |-> file,
         sections |->
           << Section(".text", xva, n,
                      CASE xraw = "inside" -> 0
                        [] xraw = "beyond" -> Len(file) + 4
                        [] OTHER -> UsizeMax - 1,
                      n, {"READ", "EXECUTE"}),
              Section(".rdata", 512, n, n, n, {"READ"}),
              Section(".text2", 8192, n, 2 * n, n, {"READ", "EXECUTE"}) >>]
PatternBinaries ==
    { PatternBinary(payload, xraw, xva) :
        payload \in PatternPayloads, xraw \in {"inside", "beyond", "wrap"},
        xva \in {4096, SignedMax} }
\* The patterns and the mask bytes tried.
Patterns == { << >>, <<170>>, <<170, 170>>, <<170, 187>>, <<144, 0>>, <<0, 144>> }
MaskBytes == {0, 1, 255}
Masks == UNION { [1 .. n -> MaskBytes] : n \in 0 .. 2 }

BfSearchPattern ==
    \E pattern \in Patterns :
        BfApply([op |-> "search_pattern", pattern |-> pattern],
                search_pattern(bf_data, bf_sections, pattern, overflow_checks))
BfSearchPatternMasked ==
    \E pattern \in Patterns, mask \in Masks :
        BfApply([op |-> "search_pattern_masked", pattern |-> pattern, mask |-> mask],
                search_pattern_masked(bf_data, bf_sections, pattern, mask, overflow_checks))

InitPattern ==
    /\ overflow_checks \in BOOLEAN
    /\ \E b \in PatternBinaries : bf_data = b.data /\ bf_sections = b.sections
    /\ bf_symbols = << >>
    /\ bf_architecture = "X64"
    /\ bf_call = [op |-> "new"]
    /\ bf_result = None
    /\ rdIdle /\ mdIdle /\ dmIdle /\ moIdle /\ pcIdle

NextPattern == BfSearchPattern \/ BfSearchPatternMasked

SpecPattern == InitPattern /\ [][NextPattern]_vars


\* The executable sections whose file bytes lie inside the file.
SearchedSections ==
    { k \in 1 .. Len(bf_sections) :
        /\ "EXECUTE" \in bf_sections[k].characteristics
        /\ bf_sections[k].raw_offset + bf_sections[k].raw_size <= Len(bf_data) }
\* The file bytes of section k at offsets [o, o + n).
SectionWindow(k, o, n) ==
    Slice(bf_data, bf_sections[k].raw_offset + o, bf_sections[k].raw_offset + o + n)
\* The <<section, offset>> pairs at which a window of n bytes satisfies Hit.
WindowsWhere(n, Hit(_)) ==
    UNION { { <<k, o>> : o \in { x \in 0 .. bf_sections[k].raw_size - n :
                                   Hit(SectionWindow(k, x, n)) } } :
            k \in SearchedSections }
\* A result lists exactly the addresses virtual_address + k of the given
\* windows, one entry for each.
ReturnsWindows(result, windows) ==
    /\ result.tag = "Some"
    /\ Len(result.val) = Cardinality(windows)
    /\ { result.val[i] : i \in 1 .. Len(result.val) }
         = { bf_sections[w[1]].virtual_address + w[2] : w \in windows }

\* C19: search_pattern(p) returns exactly the addresses section.virtual_address + k
\* of every executable section and every offset k at which the section's file
\* bytes equal p, each match once, and no address of a non-executable section.
C19_SearchPatternReturnsAllMatches ==
    bf_call.op = "search_pattern" =>
        LET Equal(window) == window = bf_call.pattern
        IN  ReturnsWindows(bf_result, WindowsWhere(Len(bf_call.pattern), Equal))

\* C20: search_pattern_masked returns exactly the windows of the executable
\* sections that equal the pattern at every position whose mask byte is zero;
\* a non-zero mask byte makes its position "don't care".
C20_NonZeroMaskIsDontCare ==
    (bf_call.op = "search_pattern_masked" /\ Len(bf_call.pattern) = Len(bf_call.mask)) =>
        LET Agrees(window) ==
                \A i \in 1 .. Len(window) :
                    bf_call.mask[i] = 0 => window[i] = bf_call.pattern[i]
        IN  ReturnsWindows(bf_result, WindowsWhere(Len(bf_call.pattern), Agrees))


-----------------------------------------------------------------------------
(* Metadata decoder: the bytes a record is decoded from                      *)

\* The Cursor reads each table reader makes for one record, in the order of
\* MetadataTables.
TableFields(version) ==
    << TypeDefinitionFields, MethodDefinitionFields(version), FieldDefinitionFields,
       ParameterDefinitionFields, PropertyDefinitionFields, EventDefinitionFields,
       ImageDefinitionFields(version), AssemblyDefinitionFields(version),
       GenericContainerFields, GenericParameterFields, StringLiteralFields,
       << F("value", "i32") >>, << F("value", "i32") >> >>

\* The records of table k that its reader decodes, and for record i the end of
\* its window and the end of the bytes its reads consume.
DecodedRecords(k) == 0 .. FitCount(MetadataTables(MdVersion)[k]) - 1
WindowEnd(k, i) ==
    MdHeader[MetadataTables(MdVersion)[k].pair].offset
        + (i + 1) * MetadataTables(MdVersion)[k].record_size
ReadEnd(k, i) ==
    MdHeader[MetadataTables(MdVersion)[k].pair].offset
        + i * MetadataTables(MdVersion)[k].record_size
        + ReadLen(TableFields(MdVersion)[k], Len(TableFields(MdVersion)[k]))

\* C27: for every table and every supported version, the reads that decode
\* record i end inside the record's own window
\* [offset + i * record_size, offset + (i + 1) * record_size): no field of
\* record i is taken from the bytes of record i + 1.
C27_RecordReadsStayInWindow ==
    (md_result # None /\ MdHasHeader)
        => \A k \in 1 .. 13 : \A i \in DecodedRecords(k) : ReadEnd(k, i) <= WindowEnd(k, i)


-----------------------------------------------------------------------------
(* BinaryReader: the cursor                                                  *)

\* The bytes a call that returned Ok consumed: the length asked for, and for
\* read_cstring the string and its terminator.
consumed(call, result) ==
    IF call.op = "read_cstring" THEN Len(result.val) + 1 ELSE requested(call)

\* C29: peek_u32 leaves the cursor where it was and returns what the next
\* read_u32 returns; a read or skip that returns an error leaves the cursor
\* unchanged; a read or skip that returns Ok advances the cursor by exactly the
\* bytes it consumed.
C29_CursorMovesOnlyOnSuccess ==
    /\ rd_call.op = "peek_u32"
         => /\ rd_offset = rd_prev
            /\ rd_result = read_u32(rd_data, rd_offset, rd_little_endian, overflow_checks).res
    /\ (rd_call.op \in ReadOps \cup {"read_cstring"} /\ rd_result.tag = "Err")
         => rd_offset = rd_prev
    /\ (rd_call.op \in (ReadOps \cup {"read_cstring"}) \ {"peek_u32"} /\ rd_result.tag = "Ok")
         => rd_offset = rd_prev + consumed(rd_call, rd_result)


-----------------------------------------------------------------------------
(* PacketCapture (crates/network/src/capture.rs)                             *)

\* CaptureError::AlreadyCapturing, NotCapturing and CaptureError(msg)
AlreadyCapturing == [tag |-> "Err", err |-> "AlreadyCapturing"]
NotCapturing == [tag |-> "Err", err |-> "NotCapturing"]
CaptureError(msg) == [tag |-> "Err", err |-> "CaptureError", msg |-> msg]

\* The configurations a capture is built with: the default one, with an
\* interface named and with promiscuous mode set.
CaptureConfigs ==
    { [interface |-> i, promiscuous |-> p] :
        i \in {"None", "eth0", "lo"}, p \in BOOLEAN }

\* PacketCapture::is_capturing
is_capturing == pc_running
\* The capture thread is inside capture_loop.
ThreadRunning == pc_loop \in {"check", "sleep"}

PcUnchangedShared == UNCHANGED <<overflow_checks, pc_config, rdVars, bfVars, mdVars, dmVars, moVars>>

\* PacketCapture::start
PcStart ==
    /\ pc_caller = "idle"
    /\ pc_call' = [op |-> "start"]
    /\ IF pc_running
       THEN /\ pc_result' = AlreadyCapturing
            /\ UNCHANGED <<pc_running, pc_packet_sender, pc_capture_thread, pc_loop>>
       ELSE /\ pc_running' = TRUE
            /\ pc_packet_sender' = FALSE
            /\ IF pc_packet_sender
               THEN /\ pc_loop' = "check"
                    /\ pc_capture_thread' = TRUE
                    /\ pc_result' = Ok(<< >>)
               ELSE /\ pc_result' = CaptureError("No sender available")
                    /\ UNCHANGED <<pc_capture_thread, pc_loop>>
    /\ UNCHANGED pc_caller
    /\ PcUnchangedShared

\* PacketCapture::stop up to handle.join(): the caller waits for the thread.
PcStop ==
    /\ pc_caller = "idle"
    /\ pc_call' = [op |-> "stop"]
    /\ IF ~pc_running
       THEN /\ pc_result' = NotCapturing
            /\ UNCHANGED <<pc_running, pc_capture_thread, pc_caller>>
       ELSE /\ pc_running' = FALSE
            /\ pc_capture_thread' = FALSE
            /\ IF pc_capture_thread
               THEN pc_caller' = "join" /\ pc_result' = None
               ELSE pc_caller' = "idle" /\ pc_result' = Ok(<< >>)
    /\ UNCHANGED <<pc_packet_sender, pc_loop>>
    /\ PcUnchangedShared

\* PacketCapture::stop from the return of handle.join() on.
PcStopJoined ==
    /\ pc_caller = "join"
    /\ pc_loop = "stopped"
    /\ pc_caller' = "idle"
    /\ pc_result' = Ok(<< >>)
    /\ UNCHANGED <<pc_call, pc_running, pc_packet_sender, pc_capture_thread, pc_loop>>
    /\ PcUnchangedShared

\* PacketCapture::is_capturing called.
PcIsCapturing ==
    /\ pc_caller = "idle"
    /\ pc_call' = [op |-> "is_capturing"]
    /\ pc_result' = Some(is_capturing)
    /\ UNCHANGED <<pc_running, pc_packet_sender, pc_capture_thread, pc_loop, pc_caller>>
    /\ PcUnchangedShared

\* capture_loop: the test `while running.load(..)`.
CaptureLoopCheck ==
    /\ pc_loop = "check"
    /\ pc_loop' = IF pc_running THEN "sleep" ELSE "stopped"
    /\ UNCHANGED <<pc_running, pc_packet_sender, pc_capture_thread, pc_caller, pc_call,
                   pc_result>>
    /\ PcUnchangedShared

\* capture_loop: the body, thread::sleep.
CaptureLoopSleep ==
    /\ pc_loop = "sleep"
    /\ pc_loop' = "check"
    /\ UNCHANGED <<pc_running, pc_packet_sender, pc_capture_thread, pc_caller, pc_call,
                   pc_result>>
    /\ PcUnchangedShared

\* PacketCapture::new
InitCapture ==
    /\ overflow_checks \in BOOLEAN
    /\ pc_config \in CaptureConfigs
    /\ pc_running = FALSE
    /\ pc_packet_sender = TRUE
    /\ pc_capture_thread = FALSE
    /\ pc_loop = "none"
    /\ pc_caller = "idle"
    /\ pc_call = [op |-> "new"]
    /\ pc_result = None
    /\ rdIdle /\ bfIdle /\ mdIdle /\ dmIdle /\ moIdle

NextCapture ==
    \/ PcStart
    \/ PcStop
    \/ PcStopJoined
    \/ PcIsCapturing
    \/ CaptureLoopCheck
    \/ CaptureLoopSleep

SpecCapture == InitCapture /\ [][NextCapture]_vars

\* C30: a start() while capturing returns AlreadyCapturing and a stop() while
\* not capturing returns NotCapturing, both leaving the capture as it was; a
\* start() from the not-capturing state (the initial one, or the one a completed
\* stop() leaves) returns Ok; a start() that failed for another reason than
\* AlreadyCapturing leaves is_capturing() false; and between calls
\* is_capturing() is true exactly when the capture thread is running.
C30_StartStopLifecycle ==
    /\ [][/\ (PcStart /\ pc_running)
                 => /\ pc_result' = AlreadyCapturing
                    /\ UNCHANGED <<pc_running, pc_packet_sender, pc_capture_thread, pc_loop>>
          /\ (PcStop /\ ~pc_running)
                 => /\ pc_result' = NotCapturing
                    /\ UNCHANGED <<pc_running, pc_packet_sender, pc_capture_thread, pc_loop>>
          /\ (PcStart /\ ~pc_running) => pc_result' = Ok(<< >>)]_vars
    /\ [](pc_caller = "idle"
            => /\ (pc_call.op = "start" /\ pc_result.tag = "Err"
                       /\ pc_result # AlreadyCapturing) => ~is_capturing
               /\ is_capturing <=> ThreadRunning)

-----------------------------------------------------------------------------
(* Detection against the signature checks of the parsers                     *)

\* The readings of the leading bytes a signature check compares: the first two
\* or four bytes as a little-endian value.
LeadingMagicReadings ==
    { Reverse(Slice(bf_data, 0, n)) : n \in { m \in {2, 4} : m <= Len(bf_data) } }

\* C28: for every input detect_format classifies as PE, ELF or Mach-O,
\* parse_binary does not return the invalid-magic error for the leading magic:
\* the parser selected accepts the magic detection accepted, the two fat magics
\* included.
C28_DetectionAndParsingAgreeOnMagic ==
    (bf_call.op = "parse_binary" /\ detect_format(bf_data) # None)
        => ~(/\ bf_result.tag = "Err"
             /\ bf_result.err = "InvalidMagic"
             /\ bf_result.actual \in LeadingMagicReadings)

-----------------------------------------------------------------------------
(* parse_macho step by step: the header, one load command at a time, the end *)

MoUnchangedShared == UNCHANGED <<overflow_checks, rdVars, bfVars, mdVars, dmVars, pcVars>>

\* parse_macho up to the load-command loop (macho.rs:111-142).
MoHeader ==
    /\ mo_pc = "header"
    /\ LET h == macho_header(mo_args.val, overflow_checks) IN
       IF h.res.tag = "Ok"
       THEN /\ mo_offset' = h.offset
            /\ mo_ncmds' = h.ncmds
            /\ mo_locals' = Some(h.res.val)
            /\ mo_pc' = "loop"
            /\ UNCHANGED mo_result
       ELSE /\ mo_result' = h.res
            /\ mo_pc' = "done"
            /\ UNCHANGED <<mo_offset, mo_ncmds, mo_locals>>
    /\ UNCHANGED <<mo_args, mo_handled, mo_cmd>>
    /\ MoUnchangedShared

\* One iteration of `for _ in 0..ncmds` (macho.rs:145-256).
MoLoadCommand ==
    /\ mo_pc = "loop"
    /\ mo_handled < mo_ncmds
    /\ LET step == load_command(mo_args.val, mo_offset, mo_locals.val, overflow_checks) IN
       /\ mo_cmd' = step.cmd
       /\ IF step.res.tag = "Ok"
          THEN /\ mo_offset' = step.offset
               /\ mo_handled' = mo_handled + 1
               /\ mo_locals' = Some(step.res.val)
               /\ UNCHANGED <<mo_pc, mo_result>>
          ELSE /\ mo_result' = step.res
               /\ mo_pc' = "done"
               /\ UNCHANGED <<mo_offset, mo_handled, mo_locals>>
    /\ UNCHANGED <<mo_args, mo_ncmds>>
    /\ MoUnchangedShared

\* parse_macho after the loop (macho.rs:258-281).
MoFinish ==
    /\ mo_pc = "loop"
    /\ mo_handled >= mo_ncmds
    /\ mo_result' = macho_finish(mo_args.val, mo_locals.val, overflow_checks)
    /\ mo_pc' = "done"
    /\ UNCHANGED <<mo_args, mo_offset, mo_ncmds, mo_handled, mo_cmd, mo_locals>>
    /\ MoUnchangedShared

\* MachOFile::parse has matched the magic of a thin image and calls parse_macho.
InitWalk ==
    /\ overflow_checks \in BOOLEAN
    /\ \E image \in WalkImages : mo_args = macho_dispatch(image, Reverse(Slice(image, 0, 4)))
    /\ mo_offset = 0 /\ mo_ncmds = 0 /\ mo_handled = 0 /\ mo_cmd = None
    /\ mo_locals = None /\ mo_pc = "header" /\ mo_result = None
    /\ rdIdle /\ bfIdle /\ mdIdle /\ dmIdle /\ pcIdle

NextWalk == MoHeader \/ MoLoadCommand \/ MoFinish

SpecWalk == InitWalk /\ [][NextWalk]_vars

\* cmdsize as the file declares it in the command at off.
DeclaredSize(args, off) ==
    as_usize(from_bytes(Slice(args.data, off + 4, off + 8), args.little_endian))

\* C26: after each load command handled, recognized or not and whatever its
\* handler consumed, the cursor is the start of the command plus the size the
\* command declares, zero included; the walk handles at most ncmds commands,
\* and a parse that returns a file has handled exactly ncmds.
C26_WalkFollowsDeclaredSizes ==
    /\ [][(mo_pc = "loop" /\ mo_handled' # mo_handled)
              => /\ mo_handled' = mo_handled + 1
                 /\ mo_offset' = mo_offset + DeclaredSize(mo_args.val, mo_offset)]_vars
    /\ [](mo_handled <= mo_ncmds)
    /\ []((mo_pc = "done" /\ mo_result.tag = "Ok") => mo_handled = mo_ncmds)

\* Three commands declared, the first an unrecognized command declaring size
\* zero: the walk has read that same command three times and stopped.
C26_Witness ==
    /\ mo_pc = "done" /\ mo_result.tag = "Ok"
    /\ mo_ncmds = 3 /\ mo_handled = 3
    /\ mo_offset = 32
    /\ mo_cmd = Some([cmd_start |-> 32, cmd |-> LC_UUID, cmdsize |-> 0])

\* The load commands of an image as the file lays them out: the starts of the
\* n commands from off on, each where the size declared by the one before it
\* ends, as long as a command header is left in the file.
RECURSIVE CommandStarts(_, _, _)
CommandStarts(args, off, n) ==
    IF n = 0 \/ off + 8 > Len(args.data) THEN << >>
    ELSE << off >> \o CommandStarts(args, off + DeclaredSize(args, off), n - 1)

\* A field of n bytes at off, and the load commands of the image of the walk.
FieldAt(args, off, n) == from_bytes(Slice(args.data, off, off + n), args.little_endian)
ImageCommands(args) ==
    LET header_size == IF args.is_64bit THEN 32 ELSE 28
        starts == CommandStarts(args, args.base_offset + header_size,
                                as_usize(FieldAt(args, args.base_offset + 16, 4)))
    IN  { starts[k] : k \in 1 .. Len(starts) }

\* The entry offsets of the main commands and the base addresses of the __TEXT
\* segments of the image.
MainEntryOffsets(args) ==
    { as_usize(FieldAt(args, off + 8, 8)) :
        off \in { o \in ImageCommands(args) :
                    FieldAt(args, o, 4) = LC_MAIN /\ o + 24 <= Len(args.data) } }
TextBases(args) ==
    LET w == IF args.is_64bit THEN 8 ELSE 4 IN
    { as_usize(FieldAt(args, off + 24, w)) :
        off \in { o \in ImageCommands(args) :
                    /\ FieldAt(args, o, 4) \in {LC_SEGMENT, LC_SEGMENT_64}
                    /\ o + 24 + w <= Len(args.data)
                    /\ trim_end_nul(Slice(args.data, o + 8, o + 24)) = str_TEXT } }

\* C25: for a Mach-O image with a __TEXT segment and a main command, in either
\* order and for every entry offset, zero included, the entry point of the
\* parsed file is the base address of __TEXT plus the entry offset.
C25_EntryPointIsTextBasePlusOffset ==
    (mo_pc = "done" /\ mo_result.tag = "Ok")
        => \A base \in TextBases(mo_args.val), entryoff \in MainEntryOffsets(mo_args.val) :
              mo_result.val.entry_point = base + entryoff

-----------------------------------------------------------------------------
(* The parsers on whole files                                                *)

\* The headers of a PE file lie in the file and pass the checks of the parser:
\* the DOS magic, e_lfanew, the signature, the COFF header and the optional
\* header up to image_base.
PeHeadersOk(data) ==
    /\ Len(data) >= 64
    /\ Slice(data, 0, 2) = <<77, 90>>
    /\ LET pe_offset == as_usize(Reverse(Slice(data, 60, 64))) IN
       /\ pe_offset + 56 <= Len(data)
       /\ Slice(data, pe_offset, pe_offset + 4) = <<80, 69, 0, 0>>
       /\ Slice(data, pe_offset + 24, pe_offset + 26) \in { <<11, 1>>, <<11, 2>> }

\* The header of an ELF file lies in the file and passes the checks.
ElfHeadersOk(data) ==
    /\ Len(data) >= 16
    /\ Slice(data, 0, 4) = <<127, 69, 76, 70>>
    /\ data[5] \in {1, 2} /\ data[6] \in {1, 2}
    /\ Len(data) >= (IF data[5] = 2 THEN 64 ELSE 52)

\* The bytes the handler of the command at off reads from the start of the
\* command.
HandlerReads(args, off) ==
    LET cmd == FieldAt(args, off, 4)
        wide == cmd = LC_SEGMENT_64
    IN  IF cmd \in {LC_SEGMENT, LC_SEGMENT_64}
        THEN IF off + (IF wide THEN 72 ELSE 56) > Len(args.data) THEN Len(args.data) + 1
             ELSE (IF wide THEN 72 ELSE 56)
                  + (IF wide THEN 80 ELSE 68)
                    * as_usize(FieldAt(args, off + (IF wide THEN 64 ELSE 48), 4))
        ELSE IF cmd \in {LC_MAIN, LC_SYMTAB} THEN 24
        ELSE 8

\* The header and every load command of a thin Mach-O image lie in the file.
MachOHeadersOk(data) ==
    /\ Len(data) >= 32
    /\ macho_dispatch(data, Reverse(Slice(data, 0, 4))).tag = "Some"
    /\ LET args == macho_dispatch(data, Reverse(Slice(data, 0, 4))).val
           ncmds == as_usize(FieldAt(args, 16, 4))
           starts == CommandStarts(args, IF args.is_64bit THEN 32 ELSE 28, ncmds)
       IN  /\ Len(starts) = ncmds
           /\ \A k \in 1 .. ncmds : starts[k] + HandlerReads(args, starts[k]) <= Len(data)

\* C22: a file whose headers are sound is parsed to a Binary File whatever its
\* section and symbol entries hold: an entry that runs past the end of the
\* file, or a name offset outside the file, does not abort the parse.
C22_OnlyHeaderFailuresAbort ==
    /\ (bf_call.op = "PeFile::parse" /\ PeHeadersOk(bf_data)) => bf_result.tag = "Ok"
    /\ (bf_call.op = "ElfFile::parse" /\ ElfHeadersOk(bf_data)) => bf_result.tag = "Ok"
    /\ (bf_call.op = "MachOFile::parse" /\ MachOHeadersOk(bf_data)) => bf_result.tag = "Ok"

\* The calls of the three parsers.
ParserCalls == {"PeFile::parse", "ElfFile::parse", "MachOFile::parse"}

\* The leading bytes are not the magic the parser called checks first.
BadMagic ==
    /\ Len(bf_data) >= 4
    /\ CASE bf_call.op = "PeFile::parse" -> Slice(bf_data, 0, 2) # <<77, 90>>
         [] bf_call.op = "ElfFile::parse" -> Slice(bf_data, 0, 4) # <<127, 69, 76, 70>>
         [] bf_call.op = "MachOFile::parse" ->
                Slice(bf_data, 0, 4) \notin { <<206, 250, 237, 254>>, <<207, 250, 237, 254>>,
                                             <<254, 237, 250, 206>>, <<254, 237, 250, 207>>,
                                             <<190, 186, 254, 202>> }
         [] OTHER -> FALSE

\* C23: no parser panics; an input shorter than every header and a bad magic
\* are typed errors; and a PE file that is parsed holds no address below its
\* image base, that is no sum image_base + RVA that wrapped.
C23_TypedErrorsNeverPanics ==
    bf_call.op \in ParserCalls
        => /\ bf_result.tag # "Panic"
           /\ (Len(bf_data) < 28 \/ BadMagic) => bf_result.tag = "Err"
           /\ (bf_result.tag = "Ok" /\ bf_result.val.format = "PE")
                  => /\ bf_result.val.entry_point >= bf_result.val.image_base
                     /\ \A k \in 1 .. Len(bf_result.val.sections) :
                           bf_result.val.sections[k].virtual_address
                               >= bf_result.val.image_base

\* The architecture table of a fat image as the file holds it (big-endian):
\* the CPU type and the offset of each entry.
FatTable(data) ==
    [k \in 1 .. as_usize(Slice(data, 4, 8)) |->
        [cputype |-> Slice(data, 8 + 20 * (k - 1), 12 + 20 * (k - 1)),
         offset |-> as_usize(Slice(data, 16 + 20 * (k - 1), 20 + 20 * (k - 1)))]]
\* A fat image whose table lies in the file.
IsFatImage(data) ==
    /\ Len(data) >= 8
    /\ Slice(data, 0, 4) = <<190, 186, 254, 202>>
    /\ 8 + 20 * as_usize(Slice(data, 4, 8)) <= Len(data)
\* The entries of a table of either width.
Entries64(table) ==
    { k \in 1 .. Len(table) : table[k].cputype \in { <<1, 0, 0, 7>>, <<1, 0, 0, 12>> } }
Entries32(table) ==
    { k \in 1 .. Len(table) : table[k].cputype \in { <<0, 0, 0, 7>>, <<0, 0, 0, 12>> } }
First(entries) == CHOOSE k \in entries : \A j \in entries : k <= j

====
